---------------------------- MODULE Spec2Model ----------------------------
(***************************************************************************)
(* Model of the valkeysender dispatch engine                               *)
(* (src/valkeysender/sender.go): concurrent callers funnel SendMessage /   *)
(* SendMessageWithTTL / SendBatch through the rate limiter, the circuit    *)
(* breaker and a go-redis pipeline (LPUSH + EXPIRE), and update the health *)
(* counters.                                                               *)
(*                                                                         *)
(* Time is discrete; one tick of the clock `now` stands for 60 seconds.    *)
(***************************************************************************)
EXTENDS Integers, Sequences, FiniteSets, TLC

(***************************************************************************)
(* Bounds of the model                                                     *)
(***************************************************************************)
\* calls each caller starts in a behaviour of Spec
MaxCalls == 2
\* calls the first caller starts in a behaviour of SpecBreaker, and calls
\* the second caller starts beside them
MaxBreakerCalls == 6
MaxJoinCalls == 1
\* the last tick of the clock in a behaviour of Spec, and of SpecBreaker
MaxTime == 1
MaxBreakerTime == 2
\* calls the caller starts, and the last tick, in a behaviour of SpecInterval
MaxIntervalCalls == 5
MaxIntervalTime == 3
\* messages of a batch
MaxBatch == 2
\* calls each caller starts, Close calls, and the last tick, in a behaviour
\* of SpecOps
MaxOpsCalls == 1
MaxCloseCalls == 2
MaxOpsTime == 1
MaxGateCalls == 2       \* calls per caller in SpecGate
MaxGateTime == 3        \* clock ticks in SpecGate
MaxHealthSent == 12     \* messagesSent when Health is called in SpecHealth
MaxHealthErrors == 12   \* errorCount when Health is called in SpecHealth
MaxStoreCalls == 2      \* calls of the first caller in SpecStore
MaxRecoverCalls == 8    \* SendMessage calls of the caller in SpecRecover
MaxRecoverTime == 5     \* clock ticks in SpecRecover
MaxSnapshotCalls == 1   \* SendMessage calls of each caller in SpecSnapshot
MaxSnapshotTime == 1    \* clock ticks in SpecSnapshot
MaxProbeCalls == 5      \* SendMessage calls of the caller in SpecProbe
MaxProbeTime == 3       \* clock ticks in SpecProbe
MaxShutdownCalls == 1   \* SendMessage calls of each caller in SpecShutdown
MaxShutdownCloses == 2  \* Close calls in SpecShutdown
MaxShutdownTime == 1    \* clock ticks in SpecShutdown
MaxAdmitCalls == 2      \* SendMessage calls of each caller in SpecAdmit
MaxAdmitTime == 4       \* clock ticks in SpecAdmit
MaxChargeCalls == 5     \* SendMessage calls of the first caller in SpecCharge
MaxChargeTime == 1      \* clock ticks in SpecCharge
MaxDrift == 1           \* clock steps between the first and last envelope of a call
MaxHookCalls == 5       \* SendMessage calls of the first caller in SpecHooks

(***************************************************************************)
(* Program constants and configuration                                     *)
(***************************************************************************)
\* ReadyToTrip: counts.ConsecutiveFailures > 3
TripThreshold == 3
\* VALKEY_SENDER_MAX_RETRIES default "3"
DefaultMaxRetries == 3
\* VALKEY_SENDER_RETRY_DELAY default "1s", in seconds
DefaultRetryDelay == 1
\* VALKEY_SENDER_BREAKER_TIMEOUT default "60s" = 1 tick
BreakerTimeout == 1
\* VALKEY_SENDER_BREAKER_INTERVAL default "2m" = 2 ticks
BreakerInterval == 2
\* gobreaker's default when Settings.MaxRequests is 0
DefaultMaxRequests == 1
\* VALKEY_SENDER_MESSAGE_TTL default "24h" = 1440 ticks
MessageTTL == 1440
\* VALKEY_SENDER_RATE_LIMIT_BURST default "2000"
DefaultRateLimitBurst == 2000
\* VALKEY_SENDER_RATE_LIMIT_REQUESTS default "1000" per second = 60000 per tick
DefaultRateLimitRequests == 60000
\* a tight limiter configuration: tokens per tick and bucket capacity
TightRateLimitRequests == 1
TightRateLimitBurst == 1

Callers == {"c1", "c2"}
Queues == {"orders"}
\* the queue names of the runs in which callers use more than one
TwoQueues == {"orders", "audit"}
\* a message is a payload the codec can encode ("text") or nil
Messages == {"text", "nil"}
TTLs == {MessageTTL, 10}
\* how a pipeline can fail: "refused" before any command reaches the store,
\* "cut" between LPUSH and EXPIRE, "lost" after both were applied (the replies
\* never arrive: read timeout, context cancelled)
Faults == {"refused", "cut", "lost"}

RECURSIVE SeqsUpTo(_, _)
SeqsUpTo(S, n) ==
    IF n = 0 THEN {<<>>}
    ELSE LET shorter == SeqsUpTo(S, n - 1)
         IN  shorter \cup {Append(s, x) : s \in {t \in shorter : Len(t) = n - 1}, x \in S}

Batches == SeqsUpTo(Messages, MaxBatch)

Min(a, b) == IF a < b THEN a ELSE b
\* ceiling of a / b for a >= 0, b > 0
CeilDiv(a, b) == (a + b - 1) \div b

VARIABLES
    now,          \* the wall clock
    config,       \* the Config the sender was built with
    cb,           \* the circuit breaker (gobreaker.CircuitBreaker)
    lim,          \* the rate limiter (rate.Limiter)
    list,         \* the store: key -> list of envelope ids, head first
    expire,       \* the store: key -> expiration last set (0: none)
    messagesSent, errorCount, lastSuccess, lastError, isConnected,
    pc,           \* each caller's position in its call
    call,         \* each caller's current (or last) call
    nCalls,       \* calls each caller has started so far
    nextId,       \* source of fresh envelope ids (uuid.New)
    streak,       \* observer: failed executions the breaker recorded in a row
                  \* in its current generation
    tstreak,      \* observer: transport failures completed in a row since the
                  \* breaker last entered its state
    trial,        \* observer: calls let through, and calls succeeded, in the
                  \* latest half-open period
    tally,        \* observer: messages of the calls that returned success,
                  \* calls that returned an error of Execute, and calls of
                  \* the two handlers
    closed,       \* the redis client has been closed (client.Close)
    closeResult,  \* observer: what each Close call so far returned
    report,       \* observer: the HealthStatus the latest Health call returned
    passes,       \* observer: the times at which calls passed the limiter
    built,        \* observer: what validate returned for the Config, and what
                  \* NewSender returned for it
    options,      \* the SenderOptions the sender was built with
    codec,        \* observer: a payload, the bytes Serialize made of it, and
                  \* the value Deserialize made of the bytes
    reading       \* the Health call in progress: its position and the values
                  \* it has loaded so far

vars == <<now, config, cb, lim, list, expire, messagesSent, errorCount,
          lastSuccess, lastError, isConnected, pc, call, nCalls, nextId,
          streak, tstreak, trial, tally, closed, closeResult, report,
          passes, built, options, codec, reading>>

\* a sender in use: NewSender returned it; whether its Config went through
\* validate is not recorded
Built == [validated |-> "none", sender |-> "sender"]

health == <<messagesSent, errorCount, lastSuccess, lastError>>
store == <<list, expire>>

(***************************************************************************)
(* Queue key                                                               *)
(***************************************************************************)
\* options.QueueNamer: nil, or a function of the queue name chosen by the
\* application; one that puts every tenant's queues under a prefix of its
\* own, and one that sends every queue to a single list
NoNamer == <<>>
TenantNamer == [q \in TwoQueues |-> <<"tenant-7:", q>>]
SingleListNamer == [q \in TwoQueues |-> <<"jobs">>]
QueueNamers == {TenantNamer, SingleListNamer}

\* a getQueueKey that does not look at options.QueueNamer
getQueueKeyDefault(queue) == <<"queue:", queue>>

getQueueKey(queue) ==
    IF options.QueueNamer # NoNamer
    THEN options.QueueNamer[queue]
    ELSE <<"queue:", queue>>

Keys == {<<"queue:", q>> : q \in TwoQueues}
            \cup {n[q] : n \in QueueNamers, q \in TwoQueues}

(***************************************************************************)
(* Circuit breaker: gobreaker.CircuitBreaker as configured by NewSender    *)
(***************************************************************************)
ZeroTime == -1

ClearCounts ==
    [Requests |-> 0, ConsecutiveSuccesses |-> 0, ConsecutiveFailures |-> 0]

\* a trip rule with the comparison >= in place of >
ReadyToTripAtThreshold(counts) == counts.ConsecutiveFailures >= TripThreshold

\* Settings.ReadyToTrip
ReadyToTrip(counts) == counts.ConsecutiveFailures > TripThreshold

\* a trial quota one too large
cbMaxRequestsPlusOne(cfg) == cfg.BreakerMaxRequests + 1

\* Settings.MaxRequests: config.BreakerMaxRequests, 0 meaning the default of 1
cbMaxRequests(cfg) ==
    IF cfg.BreakerMaxRequests = 0 THEN DefaultMaxRequests ELSE cfg.BreakerMaxRequests

\* Settings.Timeout: the period of the open state
cbTimeout == BreakerTimeout

\* Settings.Interval: the cyclic period of the closed state
cbInterval == BreakerInterval

toNewGeneration(b, t) ==
    [b EXCEPT !.generation = @ + 1,
              !.counts = ClearCounts,
              !.expiry = CASE b.state = "closed" ->
                                IF cbInterval = 0 THEN ZeroTime ELSE t + cbInterval
                           [] b.state = "open" -> t + cbTimeout
                           [] OTHER -> ZeroTime]

\* a setState whose callback reads the state after it was assigned
setStateLate(b, s, t) ==
    IF b.state = s THEN b
    ELSE [toNewGeneration([b EXCEPT !.state = s], t)
             EXCEPT !.events = Append(@, [from |-> s, to |-> s])]

\* setState, with the OnStateChange callback appending to the event log
setState(b, s, t) ==
    IF b.state = s THEN b
    ELSE [toNewGeneration([b EXCEPT !.state = s], t)
             EXCEPT !.events = Append(@, [from |-> b.state, to |-> s])]

\* a currentState that never ends the open period
currentStateNoTimeout(b, t) ==
    CASE b.state = "closed" /\ b.expiry # ZeroTime /\ b.expiry < t -> toNewGeneration(b, t)
      [] OTHER -> b

currentState(b, t) ==
    CASE b.state = "closed" /\ b.expiry # ZeroTime /\ b.expiry < t -> toNewGeneration(b, t)
      [] b.state = "open" /\ b.expiry < t -> setState(b, "half-open", t)
      [] OTHER -> b

\* a beforeRequest that lets a request through whatever the state
beforeRequestAlways(b, cfg, t) ==
    LET b1 == currentState(b, t)
    IN  [cb |-> [b1 EXCEPT !.counts.Requests = @ + 1],
         generation |-> b1.generation, err |-> "nil"]

\* a beforeRequest with ErrOpenState as its only rejection
beforeRequestOneRejection(b, cfg, t) ==
    LET b1 == currentState(b, t)
    IN  IF \/ b1.state = "open"
           \/ b1.state = "half-open" /\ b1.counts.Requests >= cbMaxRequests(cfg)
        THEN [cb |-> b1, generation |-> b1.generation, err |-> "ErrOpenState"]
        ELSE [cb |-> [b1 EXCEPT !.counts.Requests = @ + 1],
              generation |-> b1.generation, err |-> "nil"]

\* beforeRequest: the breaker after the call, the generation handed to the
\* caller, and the rejection ("nil" when the request is let through)
beforeRequest(b, cfg, t) ==
    LET b1 == currentState(b, t)
    IN  IF b1.state = "open"
        THEN [cb |-> b1, generation |-> b1.generation, err |-> "ErrOpenState"]
        ELSE IF b1.state = "half-open" /\ b1.counts.Requests >= cbMaxRequests(cfg)
        THEN [cb |-> b1, generation |-> b1.generation, err |-> "ErrTooManyRequests"]
        ELSE [cb |-> [b1 EXCEPT !.counts.Requests = @ + 1],
              generation |-> b1.generation, err |-> "nil"]

countsOnSuccess(c) ==
    [c EXCEPT !.ConsecutiveSuccesses = @ + 1, !.ConsecutiveFailures = 0]

countsOnFailure(c) ==
    [c EXCEPT !.ConsecutiveFailures = @ + 1, !.ConsecutiveSuccesses = 0]

onSuccess(b, cfg, t) ==
    CASE b.state = "closed" -> [b EXCEPT !.counts = countsOnSuccess(@)]
      [] b.state = "half-open" ->
            LET b1 == [b EXCEPT !.counts = countsOnSuccess(@)]
            IN  IF b1.counts.ConsecutiveSuccesses >= cbMaxRequests(cfg)
                THEN setState(b1, "closed", t) ELSE b1
      [] OTHER -> b

\* an onFailure that trips the closed breaker only
onFailureClosedOnly(b, t) ==
    CASE b.state = "closed" ->
            LET b1 == [b EXCEPT !.counts = countsOnFailure(@)]
            IN  IF ReadyToTrip(b1.counts) THEN setState(b1, "open", t) ELSE b1
      [] OTHER -> b

onFailure(b, t) ==
    CASE b.state = "closed" ->
            LET b1 == [b EXCEPT !.counts = countsOnFailure(@)]
            IN  IF ReadyToTrip(b1.counts) THEN setState(b1, "open", t) ELSE b1
      [] b.state = "half-open" -> setState(b, "open", t)
      [] OTHER -> b

\* afterRequest: a result of an earlier generation is dropped
afterRequest(b, cfg, before, success, t) ==
    LET b1 == currentState(b, t)
    IN  IF b1.generation # before THEN b1
        ELSE IF success THEN onSuccess(b1, cfg, t) ELSE onFailure(b1, t)

\* NewCircuitBreaker: closed, first generation
NewCircuitBreaker(t) ==
    toNewGeneration([state |-> "closed", generation |-> 0, counts |-> ClearCounts,
                     expiry |-> ZeroTime, events |-> <<>>], t)

(***************************************************************************)
(* Rate limiter: rate.NewLimiter(rate.Limit(config.RateLimitRequests),     *)
(* config.RateLimitBurst).  The bucket is kept advanced to the present:    *)
(* lim.tokens is what advance(now) returns, and lim.lastEvent is never in  *)
(* the past (a lastEvent in the past is read by no operation).  A limit of *)
(* 0 refills nothing: the limiter then hands out its burst, which is used  *)
(* up for good.                                                            *)
(***************************************************************************)
NewLimiter(cfg) ==
    [tokens |-> cfg.RateLimitBurst, lastEvent |-> 0, burst |-> cfg.RateLimitBurst]

\* advance over d ticks
\* a bucket without a capacity: idle time is saved up without limit
limAdvanceUncapped(l, cfg, d) == l.tokens + d * cfg.RateLimitRequests

limAdvance(l, cfg, d) == Min(cfg.RateLimitBurst, l.tokens + d * cfg.RateLimitRequests)

\* the bucket one tick later
limTick(l, cfg, t) ==
    [l EXCEPT !.tokens = limAdvance(l, cfg, 1),
              !.lastEvent = IF l.lastEvent < t THEN t ELSE l.lastEvent]

durationFromTokens(cfg, n) == CeilDiv(n, cfg.RateLimitRequests)

\* reserveN(t, 1, InfDuration): the limiter after the reservation and the
\* time at which the caller may act
limReserve(l, cfg, t) ==
    IF cfg.RateLimitRequests = 0
    THEN [lim |-> [l EXCEPT !.burst = @ - 1], timeToAct |-> t]
    ELSE LET tokens == l.tokens - 1
             wait == IF tokens < 0 THEN durationFromTokens(cfg, -tokens) ELSE 0
         IN  [lim |-> [l EXCEPT !.tokens = tokens, !.lastEvent = t + wait],
              timeToAct |-> t + wait]

\* Reservation.CancelAt(t) of a reservation of one token due at timeToAct
limCancel(l, cfg, timeToAct, t) ==
    IF timeToAct < t THEN l
    ELSE LET restore == 1 - (l.lastEvent - timeToAct) * cfg.RateLimitRequests
         IN  IF restore <= 0 THEN l
             ELSE LET prevEvent == timeToAct - durationFromTokens(cfg, 1)
                  IN  [l EXCEPT
                         !.tokens = Min(cfg.RateLimitBurst, l.tokens + restore),
                         !.lastEvent = IF timeToAct = l.lastEvent /\ prevEvent >= t
                                       THEN prevEvent ELSE l.lastEvent]

(***************************************************************************)
(* State after NewSender                                                   *)
(***************************************************************************)
NoCall ==
    [op |-> "none", queue |-> "", msgs |-> <<>>, ttl |-> 0, ctxDone |-> FALSE,
     timeToAct |-> 0, generation |-> 0, err |-> "nil", ids |-> <<>>,
     failed |-> FALSE, size |-> 0, errText |-> <<>>, stamps |-> <<>>,
     \* observers of the call
     tokenTaken |-> FALSE, cbSeen |-> "none", invoked |-> FALSE,
     pushed |-> FALSE, expired |-> FALSE, errInc |-> 0, sentInc |-> 0,
     afterClose |-> FALSE, attempts |-> 0]

\* a configuration whose limiter makes callers wait
TightConfig ==
    [BreakerMaxRequests |-> 2,
     RateLimitRequests |-> TightRateLimitRequests,
     RateLimitBurst |-> TightRateLimitBurst,
     MaxRetries |-> DefaultMaxRetries,
     RetryDelay |-> DefaultRetryDelay]

\* a limiter of capacity burst refilled with r tokens per tick
GateConfig(burst, r) ==
    [TightConfig EXCEPT !.RateLimitBurst = burst, !.RateLimitRequests = r]

\* LoadConfig's limiter defaults, with a trial quota of m
BreakerConfig(m) ==
    [BreakerMaxRequests |-> m,
     RateLimitRequests |-> DefaultRateLimitRequests,
     RateLimitBurst |-> DefaultRateLimitBurst,
     MaxRetries |-> DefaultMaxRetries,
     RetryDelay |-> DefaultRetryDelay]

\* LoadConfig's defaults but for the retry settings
RetryConfig(retries, delay) ==
    [BreakerConfig(5) EXCEPT !.MaxRetries = retries, !.RetryDelay = delay]

\* no Health call yet
NoReport == [Status |-> "none"]

\* the codec is not under observation
NoCodec == [stage |-> "none"]

\* no Health call in progress
NoReading == [at |-> "none"]

InitOptions(configs, namers) ==
    /\ options \in [QueueNamer : namers]
    /\ codec = NoCodec
    /\ reading = NoReading
    /\ now = 0
    /\ config \in configs
    /\ cb = NewCircuitBreaker(0)
    /\ lim = NewLimiter(config)
    /\ list = [k \in Keys |-> <<>>]
    /\ expire = [k \in Keys |-> 0]
    /\ messagesSent = 0
    /\ errorCount = 0
    /\ lastSuccess = 0
    /\ lastError = ""
    /\ isConnected = TRUE
    /\ pc = [c \in Callers |-> "idle"]
    /\ call = [c \in Callers |-> NoCall]
    /\ nCalls = [c \in Callers |-> 0]
    /\ nextId = 1
    /\ streak = 0
    /\ tstreak = 0
    /\ trial = [admitted |-> 0, succeeded |-> 0]
    /\ tally = [okMsgs |-> 0, failedCalls |-> 0, errorHandler |-> 0,
                successHandler |-> 0]
    /\ closed = FALSE
    /\ closeResult = <<>>
    /\ report = NoReport
    /\ passes = <<>>
    /\ built = Built

\* a sender built with options nil
InitWith(configs) == InitOptions(configs, {NoNamer})

Init == InitWith({TightConfig})

InitBreaker == InitWith({BreakerConfig(2)})

\* also a Config built without BreakerMaxRequests (src/test_simple.go)
InitQuota == InitWith({BreakerConfig(0), BreakerConfig(2)})

(***************************************************************************)
(* The clock                                                               *)
(***************************************************************************)
Tick(max) ==
    /\ now < max
    /\ now' = now + 1
    /\ lim' = limTick(lim, config, now + 1)
    /\ UNCHANGED <<config, cb, list, expire, messagesSent, errorCount,
                   lastSuccess, lastError, isConnected, pc, call, nCalls,
                   nextId, streak, tstreak, trial, tally,
                   closed, closeResult, report, passes, built, options, codec, reading>>

(***************************************************************************)
(* SendMessage / SendMessageWithTTL / SendBatch, entry: the empty-batch    *)
(* check and rateLimiter.Wait(ctx) up to its reservation                   *)
(***************************************************************************)
\* the call is about to return err without having reached the breaker
FailEarly(c, k, err) ==
    /\ pc' = [pc EXCEPT ![c] = "early"]
    /\ call' = [call EXCEPT ![c] = [k EXCEPT !.err = err]]

\* the observer of the limiter: a call passes Wait with the token granted for
\* time t (the timeToAct of its reservation). It follows the
\* limiters tighter than the default one, whose burst the callers never exhaust
Passed(t) ==
    IF config.RateLimitBurst < DefaultRateLimitBurst THEN Append(passes, t) ELSE passes

\* a Wait that takes a second token for a call of several messages
LimiterWaitPerMessage(c, k) ==
    IF lim.burst < 1 \/ k.ctxDone
    THEN /\ FailEarly(c, k, "RateLimited")
         /\ UNCHANGED <<lim, passes>>
    ELSE LET first == limReserve(lim, config, now)
             r == IF Len(k.msgs) > 1 THEN limReserve(first.lim, config, now)
                  ELSE first
         IN  /\ lim' = r.lim
             /\ passes' = IF r.timeToAct > now THEN passes ELSE Passed(now)
             /\ pc' = [pc EXCEPT ![c] = IF r.timeToAct > now THEN "sleep" ELSE "before"]
             /\ call' = [call EXCEPT ![c] = [k EXCEPT !.timeToAct = r.timeToAct,
                                                        !.tokenTaken = TRUE]]

\* rateLimiter.Wait(ctx): a limiter whose burst is below the one token asked
\* for fails at once, and so does a context already done; otherwise a token
\* is reserved and the caller proceeds, or sleeps until it is due
LimiterWait(c, k) ==
    IF lim.burst < 1 \/ k.ctxDone
    THEN /\ FailEarly(c, k, "RateLimited")
         /\ UNCHANGED <<lim, passes>>
    ELSE LET r == limReserve(lim, config, now)
         IN  /\ lim' = r.lim
             /\ passes' = IF r.timeToAct > now THEN passes ELSE Passed(now)
             /\ pc' = [pc EXCEPT ![c] = IF r.timeToAct > now THEN "sleep" ELSE "before"]
             /\ call' = [call EXCEPT ![c] = [k EXCEPT !.timeToAct = r.timeToAct,
                                                        !.tokenTaken = TRUE]]

\* SendMessage is SendMessageWithTTL with ttl = config.MessageTTL
SendMessageWithTTLTo(c, max, qs, msgs, ttls, dones) ==
    /\ pc[c] = "idle"
    /\ nCalls[c] < max
    /\ \E q \in qs, m \in msgs, ttl \in ttls, done \in dones :
          LimiterWait(c, [NoCall EXCEPT !.op = "send", !.queue = q, !.msgs = <<m>>,
                                        !.ttl = ttl, !.ctxDone = done,
                                        !.afterClose = closed])
    /\ nCalls' = [nCalls EXCEPT ![c] = @ + 1]
    /\ UNCHANGED <<now, config, cb, list, expire, messagesSent, errorCount,
                   lastSuccess, lastError, isConnected, nextId, streak, tstreak, trial, tally,
                   closed, closeResult, report, built, options, codec, reading>>

\* SendMessageWithTTL by callers that all name the one queue
SendMessageWithTTL(c, max, msgs, ttls, dones) ==
    SendMessageWithTTLTo(c, max, Queues, msgs, ttls, dones)

\* a SendBatch without the check of the empty list
SendBatchUnchecked(c, max, batches, dones) ==
    /\ pc[c] = "idle"
    /\ nCalls[c] < max
    /\ \E q \in Queues, ms \in batches, done \in dones :
          LimiterWait(c, [NoCall EXCEPT !.op = "batch", !.queue = q, !.msgs = ms,
                                        !.ttl = MessageTTL, !.ctxDone = done,
                                        !.afterClose = closed])
    /\ nCalls' = [nCalls EXCEPT ![c] = @ + 1]
    /\ UNCHANGED <<now, config, cb, list, expire, messagesSent, errorCount,
                   lastSuccess, lastError, isConnected, nextId, streak, tstreak,
                   trial, tally,
                   closed, closeResult, report, built, options, codec, reading>>

SendBatchTo(c, max, qs, batches, dones) ==
    /\ pc[c] = "idle"
    /\ nCalls[c] < max
    /\ \E q \in qs, ms \in batches, done \in dones :
          LET k == [NoCall EXCEPT !.op = "batch", !.queue = q, !.msgs = ms,
                                  !.ttl = MessageTTL, !.ctxDone = done,
                                  !.afterClose = closed]
          IN  IF Len(ms) = 0
              THEN /\ FailEarly(c, k, "EmptyBatch")
                   /\ UNCHANGED <<lim, passes>>
              ELSE LimiterWait(c, k)
    /\ nCalls' = [nCalls EXCEPT ![c] = @ + 1]
    /\ UNCHANGED <<now, config, cb, list, expire, messagesSent, errorCount,
                   lastSuccess, lastError, isConnected, nextId, streak, tstreak, trial, tally,
                   closed, closeResult, report, built, options, codec, reading>>

\* SendBatch by callers that all name the one queue
SendBatch(c, max, batches, dones) ==
    SendBatchTo(c, max, Queues, batches, dones)

\* the caller's context is cancelled while the call sleeps in Wait
CancelContext(c) ==
    /\ pc[c] = "sleep"
    /\ ~call[c].ctxDone
    /\ call' = [call EXCEPT ![c].ctxDone = TRUE]
    /\ UNCHANGED <<now, config, cb, lim, list, expire, messagesSent, errorCount,
                   lastSuccess, lastError, isConnected, pc, nCalls, nextId,
                   streak, tstreak, trial, tally,
                   closed, closeResult, report, passes, built, options, codec, reading>>

\* a Wait whose select has no ctx.Done() case: a cancelled caller goes on to
\* the breaker with its token
WaitWakeTimerOnly(c) ==
    /\ pc[c] = "sleep"
    /\ \/ now >= call[c].timeToAct
       \/ call[c].ctxDone
    /\ pc' = [pc EXCEPT ![c] = "before"]
    /\ passes' = Passed(call[c].timeToAct)
    /\ UNCHANGED <<now, config, cb, lim, list, expire, messagesSent, errorCount,
                   lastSuccess, lastError, isConnected, call, nCalls, nextId,
                   streak, tstreak, trial, tally,
                   closed, closeResult, report, built, options, codec, reading>>

\* Wait's select: the timer fires, or ctx.Done() gives the reservation back
WaitWake(c) ==
    /\ pc[c] = "sleep"
    /\ \/ /\ now >= call[c].timeToAct
          /\ pc' = [pc EXCEPT ![c] = "before"]
          /\ passes' = Passed(call[c].timeToAct)
          /\ UNCHANGED <<call, lim>>
       \/ /\ call[c].ctxDone
          /\ lim' = limCancel(lim, config, call[c].timeToAct, now)
          /\ UNCHANGED passes
          /\ FailEarly(c, [call[c] EXCEPT !.tokenTaken = FALSE], "RateLimited")
    /\ UNCHANGED <<now, config, cb, list, expire, messagesSent, errorCount,
                   lastSuccess, lastError, isConnected, nCalls, nextId,
                   streak, tstreak, trial, tally,
                   closed, closeResult, report, built, options, codec, reading>>

\* the error of the empty-batch check or of the limiter is returned as it
\* is: no counter, no lastError, no handler
ReturnEarly(c) ==
    /\ pc[c] = "early"
    /\ pc' = [pc EXCEPT ![c] = "idle"]
    /\ call' = [call EXCEPT ![c] = NoCall]
    /\ UNCHANGED <<now, config, cb, lim, list, expire, messagesSent, errorCount,
                   lastSuccess, lastError, isConnected, nCalls, nextId,
                   streak, tstreak, trial, tally,
                   closed, closeResult, report, passes, built, options, codec, reading>>

(***************************************************************************)
(* After Execute: atomic.AddInt64 on errorCount or on messagesSent         *)
(***************************************************************************)
\* a store of the delta in place of an add
StoreInt64(v, delta) == delta

AtomicAddInt64(v, delta) == v + delta

\* JSONSerializer.Serialize fails on a nil message
SerializeFails(m) == m = "nil"

\* a loop that serializes the first message only
RECURSIVE FirstBadHead(_, _)
FirstBadHead(ms, i) ==
    IF i > Min(Len(ms), 1) THEN 0
    ELSE IF SerializeFails(ms[i]) THEN i ELSE FirstBadHead(ms, i + 1)

\* the first message the codec rejects, 0 when it accepts all
RECURSIVE FirstBad(_, _)
FirstBad(ms, i) ==
    IF i > Len(ms) THEN 0
    ELSE IF SerializeFails(ms[i]) THEN i ELSE FirstBad(ms, i + 1)

\* err.Error(): the text of the error a call returns
ErrorText(k, err) ==
    CASE err = "Transport" ->
            <<IF k.op = "batch" THEN "failed to send batch to queue "
                                ELSE "failed to send message to queue ",
              k.queue, ": ", "Transport">>
      [] err = "Serialize" ->
            IF k.op = "batch"
            THEN <<"failed to serialize message ", FirstBad(k.msgs, 1) - 1, ": ",
                   "Serialize">>
            ELSE <<"failed to serialize message: ", "Serialize">>
      [] err = "ErrOpenState" -> <<"circuit breaker is open">>
      [] err = "ErrTooManyRequests" -> <<"too many requests">>
      [] OTHER -> <<>>

\* the counters and the call's record once Execute has returned err
Metrics(c, k, err) ==
    IF err # "nil"
    THEN /\ errorCount' = AtomicAddInt64(errorCount, 1)
         /\ call' = [call EXCEPT ![c] = [k EXCEPT !.err = err, !.errInc = @ + 1,
                                                    !.errText = ErrorText(k, err)]]
         /\ UNCHANGED messagesSent
    ELSE /\ messagesSent' = AtomicAddInt64(messagesSent, Len(k.msgs))
         /\ call' = [call EXCEPT ![c] = [k EXCEPT !.err = err,
                                                    !.sentInc = @ + Len(k.msgs)]]
         /\ UNCHANGED errorCount

(***************************************************************************)
(* circuitBreaker.Execute: beforeRequest; a rejected call goes on to count *)
(* its error                                                               *)
(***************************************************************************)
Execute(c) ==
    /\ pc[c] = "before"
    /\ LET r == beforeRequest(cb, config, now)
           k == [call[c] EXCEPT !.generation = r.generation, !.timeToAct = 0,
                                !.cbSeen = r.cb.state]
       IN  /\ cb' = r.cb
           /\ streak' = IF r.cb.generation # cb.generation THEN 0 ELSE streak
           /\ tstreak' = IF r.cb.state # cb.state THEN 0 ELSE tstreak
           /\ trial' = IF r.cb.state # "half-open" THEN trial
                       ELSE LET t == IF cb.state # "half-open"
                                     THEN [admitted |-> 0, succeeded |-> 0]
                                     ELSE trial
                            IN  IF r.err = "nil"
                                THEN [t EXCEPT !.admitted = @ + 1] ELSE t
           /\ IF r.err = "nil"
              THEN /\ call' = [call EXCEPT ![c] = k]
                   /\ pc' = [pc EXCEPT ![c] = "exec"]
                   /\ UNCHANGED <<messagesSent, errorCount>>
              ELSE /\ Metrics(c, k, r.err)
                   /\ pc' = [pc EXCEPT ![c] = "last"]
    /\ UNCHANGED <<now, config, lim, list, expire, lastSuccess, lastError,
                   isConnected, nCalls, nextId, tally,
                   closed, closeResult, report, passes, built, options, codec, reading>>

(***************************************************************************)
(* circuitBreaker.Execute: the closure has returned err; afterRequest,     *)
(* then the counters                                                       *)
(***************************************************************************)
ExecuteDone(c, k, err) ==
    LET counted == currentState(cb, now).generation = k.generation
        b2 == afterRequest(cb, config, k.generation, err = "nil", now)
    IN  /\ cb' = b2
        /\ streak' = IF b2.generation # cb.generation THEN 0
                     ELSE IF ~counted THEN streak
                     ELSE IF err = "nil" THEN 0 ELSE streak + 1
        /\ tstreak' = IF b2.state # cb.state \/ err # "Transport" THEN 0
                      ELSE tstreak + 1
        /\ trial' = IF cb.state = "half-open" /\ counted /\ err = "nil"
                    THEN [trial EXCEPT !.succeeded = @ + 1] ELSE trial
        /\ Metrics(c, k, err)
        /\ pc' = [pc EXCEPT ![c] = "last"]

(***************************************************************************)
(* sendMessageInternal / sendBatchInternal: the closure run by Execute     *)
(***************************************************************************)
\* fresh envelope ids (uuid.New), one per message
NewIds(n) == [i \in 1..n |-> nextId + i - 1]

\* Timestamp: time.Now() is read once for each envelope as it is built.  A
\* reading is given as the time since the first reading of the call, in
\* steps of the clock's resolution: the clock may have moved on between two
\* readings ("drift") or not
Readings(n, faults) ==
    IF "drift" \in faults
    THEN {st \in [1..n -> 0..MaxDrift] :
            /\ n > 0 => st[1] = 0
            /\ \A i \in 1..(n - 1) : st[i] <= st[i + 1]}
    ELSE {[i \in 1..n |-> 0]}

Reverse(s) == [i \in 1..Len(s) |-> s[Len(s) + 1 - i]]

\* a push that puts the values at the head as one block, the first value
\* first
LPushBlock(l, values) == values \o l

\* LPUSH key v1 .. vn: each value in turn becomes the head
LPush(l, values) == Reverse(values) \o l

\* the envelopes are built and serialized, then the pipeline is executed:
\* the codec fails and the closure returns; or the pipeline is refused (as
\* it is by a closed client), the connection flag is cleared and the closure
\* returns; or LPUSH reaches the store
Internal(c, faults) ==
    /\ pc[c] = "exec"
    /\ LET k == call[c]
           key == getQueueKey(k.queue)
       IN  IF FirstBad(k.msgs, 1) # 0
           THEN /\ ExecuteDone(c, k, "Serialize")
                /\ UNCHANGED <<list, nextId, isConnected>>
           ELSE \/ /\ ~closed
                   /\ list' = [list EXCEPT ![key] = LPush(@, NewIds(Len(k.msgs)))]
                   /\ nextId' = nextId + Len(k.msgs)
                   /\ \E st \in Readings(Len(k.msgs), faults) :
                        call' = [call EXCEPT ![c].ids = NewIds(Len(k.msgs)),
                                           ![c].stamps = st,
                                           ![c].invoked = TRUE,
                                           ![c].attempts = @ + 1,
                                           ![c].pushed = TRUE]
                   /\ pc' = [pc EXCEPT ![c] = "expire"]
                   /\ UNCHANGED <<cb, messagesSent, errorCount, isConnected,
                                  streak, tstreak, trial>>
                \/ /\ "refused" \in faults \/ closed
                   /\ isConnected' = FALSE
                   /\ ExecuteDone(c, [k EXCEPT !.invoked = TRUE, !.attempts = @ + 1],
                                  "Transport")
                   /\ UNCHANGED <<list, nextId>>
    /\ UNCHANGED <<now, config, lim, expire, lastSuccess, lastError, nCalls,
                   tally,
                   closed, closeResult, report, passes, built, options, codec, reading>>

\* an EXPIRE that leaves an expiration already set alone (EXPIRE key ttl NX)
ExpireNX(l, e, key, ttl) ==
    IF l[key] = <<>> \/ e[key] # 0 THEN e ELSE [e EXCEPT ![key] = ttl]

\* EXPIRE key ttl: the key's expiration becomes ttl, whatever it was; a key
\* that does not exist gets none
Expire(l, e, key, ttl) ==
    IF l[key] = <<>> THEN e ELSE [e EXCEPT ![key] = ttl]

\* the pipeline's second command: EXPIRE reaches the store, or the
\* connection is cut (or closed) after LPUSH was applied
PipelineExpire(c, faults) ==
    /\ pc[c] = "expire"
    /\ \/ /\ expire' = Expire(list, expire, getQueueKey(call[c].queue), call[c].ttl)
          /\ call' = [call EXCEPT ![c].expired = TRUE]
       \/ /\ "cut" \in faults \/ closed
          /\ call' = [call EXCEPT ![c].failed = TRUE]
          /\ UNCHANGED expire
    /\ pc' = [pc EXCEPT ![c] = "reply"]
    /\ UNCHANGED <<now, config, cb, lim, list, messagesSent, errorCount,
                   lastSuccess, lastError, isConnected, nCalls, nextId,
                   streak, tstreak, trial, tally,
                   closed, closeResult, report, passes, built, options, codec, reading>>

\* a closure that calls setConnectionState on success only
PipelineReplySetOnly(c, faults) ==
    /\ pc[c] = "reply"
    /\ \E lost \in IF closed THEN {TRUE} ELSE {FALSE} \cup {"lost" \in faults} :
          LET bad == call[c].failed \/ lost
          IN  /\ isConnected' = IF bad THEN isConnected ELSE TRUE
              /\ ExecuteDone(c, call[c], IF bad THEN "Transport" ELSE "nil")
    /\ UNCHANGED <<now, config, lim, list, expire, lastSuccess, lastError,
                   nCalls, nextId, tally,
                   closed, closeResult, report, passes, built, options, codec, reading>>

\* pipe.Exec returns: the replies arrive, or they are lost (read timeout,
\* context cancelled, client closed); setConnectionState records the outcome and the
\* closure returns
PipelineReply(c, faults) ==
    /\ pc[c] = "reply"
    /\ \E lost \in IF closed THEN {TRUE} ELSE {FALSE} \cup {"lost" \in faults} :
          LET bad == call[c].failed \/ lost
          IN  /\ isConnected' = ~bad
              /\ ExecuteDone(c, call[c], IF bad THEN "Transport" ELSE "nil")
    /\ UNCHANGED <<now, config, lim, list, expire, lastSuccess, lastError,
                   nCalls, nextId, tally,
                   closed, closeResult, report, passes, built, options, codec, reading>>

(***************************************************************************)
(* The end of the call                                                     *)
(***************************************************************************)
\* an error branch that calls the handler once for each message of the call
ErrorHandlerPerMessage(k) ==
    IF k.err = "nil" THEN <<>> ELSE [i \in 1..Len(k.msgs) |-> k.errText]

\* options.ErrorHandler(err): the errors the handler is called with once
\* Execute has returned k.err
ErrorHandlerCalls(k) ==
    IF k.err = "nil" THEN <<>> ELSE <<k.errText>>

\* MessageID: uuid.New().String(), drawn as the metadata is built: a value
\* that no earlier uuid.New returned.  The ids drawn for metadata are told
\* from the envelopes' ids by their sign: the n-th of them is -n
NewMessageID(n) == 0 - (tally.successHandler + n)

\* a success branch that calls the handler once for the call
SuccessHandlerPerCall(k) ==
    IF k.err # "nil" THEN <<>>
    ELSE <<[Queue |-> k.queue, Position |-> 0, MessageID |-> NewMessageID(1),
            TTL |-> k.ttl]>>

\* options.SuccessHandler(metadata): the metadata the handler is called with,
\* one for SendMessageWithTTL, one per message with its index for SendBatch
SuccessHandlerCalls(k) ==
    IF k.err # "nil" THEN <<>>
    ELSE [i \in 1..Len(k.msgs) |->
             [Queue |-> k.queue, Position |-> i - 1,
              MessageID |-> NewMessageID(i), TTL |-> k.ttl]]

\* the observer counts the handler calls of the returning call
Handled(t, k) ==
    [t EXCEPT !.errorHandler = @ + Len(ErrorHandlerCalls(k)),
              !.successHandler = @ + Len(SuccessHandlerCalls(k))]

\* a sender that runs the closure again after a transport failure, up to
\* config.MaxRetries times, before it returns
ReturnOrRetry(c) ==
    /\ pc[c] = "last"
    /\ IF call[c].err = "Transport" /\ call[c].attempts <= config.MaxRetries
       THEN /\ pc' = [pc EXCEPT ![c] = "exec"]
            /\ call' = [call EXCEPT ![c].err = "nil", ![c].errText = <<>>]
            /\ UNCHANGED <<lastError, lastSuccess, tally>>
       ELSE /\ IF call[c].err # "nil"
               THEN /\ lastError' = call[c].err
                    /\ UNCHANGED lastSuccess
               ELSE /\ lastSuccess' = now
                    /\ UNCHANGED lastError
            /\ tally' = Handled(IF call[c].err # "nil"
                                THEN [tally EXCEPT !.failedCalls = @ + 1]
                                ELSE [tally EXCEPT !.okMsgs = @ + Len(call[c].msgs)],
                                call[c])
            /\ pc' = [pc EXCEPT ![c] = "idle"]
            /\ call' = [call EXCEPT ![c] = NoCall]
    /\ UNCHANGED <<now, config, cb, lim, list, expire, messagesSent, errorCount,
                   isConnected, nCalls, nextId, streak, tstreak, trial,
                   closed, closeResult, report, passes, built, options, codec, reading>>

\* the plain write of lastError or lastSuccess, the handlers, the return
Return(c) ==
    /\ pc[c] = "last"
    /\ IF call[c].err # "nil"
       THEN /\ lastError' = call[c].err
            /\ UNCHANGED lastSuccess
       ELSE /\ lastSuccess' = now
            /\ UNCHANGED lastError
    /\ tally' = Handled(IF call[c].err # "nil"
                        THEN [tally EXCEPT !.failedCalls = @ + 1]
                        ELSE [tally EXCEPT !.okMsgs = @ + Len(call[c].msgs)],
                        call[c])
    /\ pc' = [pc EXCEPT ![c] = "idle"]
    /\ call' = [call EXCEPT ![c] = NoCall]
    /\ UNCHANGED <<now, config, cb, lim, list, expire, messagesSent, errorCount,
                   isConnected, nCalls, nextId, streak, tstreak, trial,
                   closed, closeResult, report, passes, built, options, codec, reading>>

\* the health fields c's next step writes with a plain assignment, outside
\* any lock
PlainWrites(c) ==
    IF pc[c] # "last" THEN {}
    ELSE IF call[c].err # "nil" THEN {"lastError"} ELSE {"lastSuccess"}

(***************************************************************************)
(* GetQueueSize: client.LLen on the queue's key, with no limiter and no    *)
(* breaker before it and no counter after it                               *)
(***************************************************************************)
\* a GetQueueSize that keeps the books of a send: the connection flag and
\* the error counter follow the outcome of LLen
GetQueueSizeCounted(c, max, qs, faults) ==
    /\ pc[c] = "idle"
    /\ nCalls[c] < max
    /\ \E q \in qs, fails \in {closed} \cup {"refused" \in faults} :
          LET k == [NoCall EXCEPT !.op = "size", !.queue = q, !.invoked = TRUE,
                                  !.afterClose = closed]
          IN  /\ call' = [call EXCEPT ![c] =
                    IF closed \/ fails
                    THEN [k EXCEPT !.err = "Transport",
                                   !.errText = <<"failed to get queue size for ",
                                                 q, ": ", "Transport">>]
                    ELSE [k EXCEPT !.size = Len(list[getQueueKey(q)])]]
              /\ isConnected' = ~(closed \/ fails)
              /\ errorCount' = IF closed \/ fails THEN errorCount + 1 ELSE errorCount
    /\ pc' = [pc EXCEPT ![c] = "sized"]
    /\ nCalls' = [nCalls EXCEPT ![c] = @ + 1]
    /\ UNCHANGED <<now, config, cb, lim, list, expire, messagesSent,
                   lastSuccess, lastError, nextId, streak, tstreak,
                   trial, tally, closed, closeResult, report, passes, built, options, codec, reading>>

GetQueueSizeOf(c, max, qs, faults) ==
    /\ pc[c] = "idle"
    /\ nCalls[c] < max
    /\ \E q \in qs, fails \in {closed} \cup {"refused" \in faults} :
          LET k == [NoCall EXCEPT !.op = "size", !.queue = q, !.invoked = TRUE,
                                  !.afterClose = closed]
          IN  call' = [call EXCEPT ![c] =
                  IF closed \/ fails
                  THEN [k EXCEPT !.err = "Transport",
                                 !.errText = <<"failed to get queue size for ",
                                               q, ": ", "Transport">>]
                  ELSE [k EXCEPT !.size = Len(list[getQueueKey(q)])]]
    /\ pc' = [pc EXCEPT ![c] = "sized"]
    /\ nCalls' = [nCalls EXCEPT ![c] = @ + 1]
    /\ UNCHANGED <<now, config, cb, lim, list, expire, messagesSent, errorCount,
                   lastSuccess, lastError, isConnected, nextId, streak, tstreak,
                   trial, tally, closed, closeResult, report, passes, built, options, codec, reading>>

\* GetQueueSize by callers that all name the one queue
GetQueueSize(c, max, faults) ==
    GetQueueSizeOf(c, max, Queues, faults)

\* GetQueueSize returns the size or the error
ReturnSize(c) ==
    /\ pc[c] = "sized"
    /\ pc' = [pc EXCEPT ![c] = "idle"]
    /\ call' = [call EXCEPT ![c] = NoCall]
    /\ UNCHANGED <<now, config, cb, lim, list, expire, messagesSent, errorCount,
                   lastSuccess, lastError, isConnected, nCalls, nextId,
                   streak, tstreak, trial, tally, closed, closeResult, report, passes, built, options, codec, reading>>

(***************************************************************************)
(* Close: s.cancel() (a context no operation reads), s.wg.Wait() (a group  *)
(* nothing was added to), client.Close(), setConnectionState(false)        *)
(***************************************************************************)
\* client.Close(): a closed client answers ErrClosed; closing may fail
ClientClose(faults) ==
    IF closed THEN {"ErrClosed"}
    ELSE {"nil"} \cup (IF "closefail" \in faults THEN {"CloseError"} ELSE {})

Close(max, faults) ==
    /\ Len(closeResult) < max
    /\ \E err \in ClientClose(faults) :
          /\ closed' = TRUE
          /\ closeResult' = Append(closeResult, err)
          /\ isConnected' = IF err = "nil" THEN FALSE ELSE isConnected
    /\ UNCHANGED <<now, config, cb, lim, list, expire, messagesSent, errorCount,
                   lastSuccess, lastError, pc, call, nCalls, nextId,
                   streak, tstreak, trial, tally, report, passes, built, options, codec, reading>>

(***************************************************************************)
(* The store: a key whose expiration has run out is deleted, list and all  *)
(***************************************************************************)
KeyExpires ==
    /\ \E k \in Keys :
          /\ expire[k] # 0
          /\ list' = [list EXCEPT ![k] = <<>>]
          /\ expire' = [expire EXCEPT ![k] = 0]
    /\ UNCHANGED <<now, config, cb, lim, messagesSent, errorCount, lastSuccess,
                   lastError, isConnected, pc, call, nCalls, nextId, streak,
                   tstreak, trial, tally, closed, closeResult, report, passes, built, options, codec, reading>>

(***************************************************************************)
(* Health                                                                  *)
(***************************************************************************)
\* an error rate without the + 1 in the divisor
ErrorRateAboveUnbiased(errors, sent, num, den) == errors * den > num * sent

\* float64(errorCount) / float64(messagesSent + 1) > num / den
ErrorRateAbove(errors, sent, num, den) == errors * den > num * (sent + 1)

HealthStatusOf(errors, sent) ==
    IF ErrorRateAbove(errors, sent, 5, 10) THEN "unhealthy"
    ELSE IF ErrorRateAbove(errors, sent, 1, 10) THEN "degraded"
    ELSE "healthy"

\* the snapshot; circuitBreaker.State() brings the breaker up to date
Health ==
    LET b == currentState(cb, now)
    IN  /\ report' = [Status |-> HealthStatusOf(errorCount, messagesSent),
                      LastSuccess |-> lastSuccess,
                      LastError |-> lastError,
                      ErrorCount |-> errorCount,
                      MessagesSent |-> messagesSent,
                      Uptime |-> now,
                      ConnectionState |-> IF isConnected THEN "connected"
                                                         ELSE "disconnected",
                      CircuitBreaker |-> b.state]
        /\ cb' = b
        /\ streak' = IF b.generation # cb.generation THEN 0 ELSE streak
        /\ tstreak' = IF b.state # cb.state THEN 0 ELSE tstreak
        /\ trial' = IF b.state = "half-open" /\ cb.state # "half-open"
                    THEN [admitted |-> 0, succeeded |-> 0] ELSE trial
        /\ UNCHANGED <<now, config, lim, list, expire, messagesSent, errorCount,
                       lastSuccess, lastError, isConnected, pc, call, nCalls,
                       nextId, tally, closed, closeResult, passes, built, options, codec, reading>>

\* the steps of a call from Execute on
Step(c, faults) ==
    \/ Execute(c)
    \/ Internal(c, faults)
    \/ PipelineExpire(c, faults)
    \/ PipelineReply(c, faults)
    \/ Return(c)

(***************************************************************************)
(* Spec: concurrent callers with every kind of input, under a limiter that *)
(* makes them wait.                                                        *)
(***************************************************************************)
Next ==
    \/ Tick(MaxTime)
    \/ \E c \in Callers :
          \/ SendMessageWithTTL(c, MaxCalls, Messages, TTLs, BOOLEAN)
          \/ SendBatch(c, MaxCalls, Batches, BOOLEAN)
          \/ CancelContext(c)
          \/ WaitWake(c)
          \/ ReturnEarly(c)
          \/ Step(c, Faults)

Spec == Init /\ [][Next]_vars

(***************************************************************************)
(* SpecBreaker: long runs of SendMessage and SendBatch calls, enough of them to open the *)
(* breaker, let its timeout elapse and run the half-open trials, by one    *)
(* caller, with a second caller making a call beside it at any moment.     *)
(* The only transport fault is a pipeline refused before it reaches the    *)
(* store.                                                                  *)
(***************************************************************************)
BreakerCalls(c) == IF c = "c1" THEN MaxBreakerCalls ELSE MaxJoinCalls

\* the second caller's call may be a SendBatch
BatchCalls(c) == IF c = "c1" THEN 0 ELSE MaxJoinCalls

NextBreaker ==
    \/ Tick(MaxBreakerTime)
    \/ \E c \in Callers :
          \/ SendMessageWithTTL(c, BreakerCalls(c), Messages, {MessageTTL}, {FALSE})
          \/ SendBatch(c, BatchCalls(c), {<<"text", "text">>}, {FALSE})
          \/ Step(c, {"refused"})

SpecBreaker == InitBreaker /\ [][NextBreaker]_vars

\* SpecQuota: the same runs under either trial quota
SpecQuota == InitQuota /\ [][NextBreaker]_vars

(***************************************************************************)
(* SpecInterval: one caller's SendMessage calls, one after the other, over *)
(* a time long enough for the closed breaker's counting interval to end.   *)
(***************************************************************************)
IntervalCalls(c) == IF c = "c1" THEN MaxIntervalCalls ELSE 0

NextInterval ==
    \/ Tick(MaxIntervalTime)
    \/ \E c \in Callers :
          \/ SendMessageWithTTL(c, IntervalCalls(c), Messages, {MessageTTL}, {FALSE})
          \/ Step(c, {"refused"})

SpecInterval == InitBreaker /\ [][NextInterval]_vars

(***************************************************************************)
(* SpecGate: two callers sending through limiters of small capacity and    *)
(* rate, long enough for the bucket to empty and refill several times,     *)
(* with callers cancelled while they wait. The clock ticks once per token  *)
(* of the refill, so that every wait is a whole number of ticks.           *)
(***************************************************************************)
InitGate == InitWith({GateConfig(1, 1), GateConfig(2, 1)})

NextGate ==
    \/ Tick(MaxGateTime)
    \/ \E c \in Callers :
          \/ SendMessageWithTTL(c, MaxGateCalls, {"text"}, {MessageTTL}, BOOLEAN)
          \/ CancelContext(c)
          \/ WaitWake(c)
          \/ ReturnEarly(c)
          \/ Step(c, {"refused"})

SpecGate == InitGate /\ [][NextGate]_vars

(***************************************************************************)
(* SpecHealth: Health called on a sender some way into its life, its two   *)
(* counters having any values; the status depends on nothing else.         *)
(***************************************************************************)
InitHealth ==
    /\ now = 0
    /\ config = BreakerConfig(5)
    /\ cb = NewCircuitBreaker(0)
    /\ lim = NewLimiter(config)
    /\ list = [k \in Keys |-> <<>>]
    /\ expire = [k \in Keys |-> 0]
    /\ messagesSent \in 0..MaxHealthSent
    /\ errorCount \in 0..MaxHealthErrors
    /\ lastSuccess = 0
    /\ lastError = IF errorCount = 0 THEN "" ELSE "Serialize"
    /\ isConnected = TRUE
    /\ pc = [c \in Callers |-> "idle"]
    /\ call = [c \in Callers |-> NoCall]
    /\ nCalls = [c \in Callers |-> 0]
    /\ nextId = 1
    /\ streak = 0
    /\ tstreak = 0
    /\ trial = [admitted |-> 0, succeeded |-> 0]
    /\ tally = [okMsgs |-> messagesSent, failedCalls |-> errorCount,
                errorHandler |-> errorCount, successHandler |-> messagesSent]
    /\ closed = FALSE
    /\ closeResult = <<>>
    /\ report = NoReport
    /\ passes = <<>>
    /\ built = Built
    /\ options = [QueueNamer |-> NoNamer]
    /\ codec = NoCodec
    /\ reading = NoReading

NextHealth == Health

SpecHealth == InitHealth /\ [][NextHealth]_vars

(***************************************************************************)
(* SpecStore: sends with either TTL, batches and size queries on two       *)
(* queues, by two callers whose calls overlap, on a store that deletes     *)
(* the keys whose expiration has run out.                                  *)
(***************************************************************************)
StoreFaults == {"refused"}

StoreCalls(c) == IF c = "c1" THEN MaxStoreCalls ELSE MaxJoinCalls

InitStore == InitWith({BreakerConfig(5)})

NextStore ==
    \/ KeyExpires
    \/ \E c \in Callers :
          \/ SendMessageWithTTLTo(c, StoreCalls(c), TwoQueues, {"text"}, TTLs, {FALSE})
          \/ SendBatchTo(c, StoreCalls(c), TwoQueues, {<<"text", "text">>}, {FALSE})
          \/ GetQueueSizeOf(c, StoreCalls(c), TwoQueues, StoreFaults)
          \/ ReturnSize(c)
          \/ Step(c, StoreFaults)

SpecStore == InitStore /\ [][NextStore]_vars

(***************************************************************************)
(* SpecHooks: one caller's SendMessage calls, enough of them to open the   *)
(* breaker, beside a second caller's SendBatch of up to two messages, one  *)
(* of which the codec may refuse; both handlers are installed.             *)
(***************************************************************************)
HookBatches == {<<>>, <<"text">>, <<"text", "text">>, <<"text", "nil">>}

HookCalls(c) == IF c = "c1" THEN MaxHookCalls ELSE 0

NextHooks ==
    \E c \in Callers :
        \/ SendMessageWithTTL(c, HookCalls(c), {"text"}, {MessageTTL}, {FALSE})
        \/ SendBatch(c, BatchCalls(c), HookBatches, {FALSE})
        \/ ReturnEarly(c)
        \/ Step(c, {"refused"})

SpecHooks == InitBreaker /\ [][NextHooks]_vars

(***************************************************************************)
(* SpecOps: every operation of the Sender interface, by two callers whose  *)
(* calls overlap, with Close called up to twice at any moment, under       *)
(* either retry setting.                                                   *)
(***************************************************************************)
OpsFaults == {"refused", "lost", "closefail"}

InitOps ==
    InitWith({RetryConfig(0, DefaultRetryDelay),
              RetryConfig(DefaultMaxRetries, DefaultRetryDelay)})

NextOps ==
    \/ Tick(MaxOpsTime)
    \/ Close(MaxCloseCalls, OpsFaults)
    \/ Health
    \/ \E c \in Callers :
          \/ SendMessageWithTTL(c, MaxOpsCalls, {"text"}, {MessageTTL}, {FALSE})
          \/ SendBatch(c, MaxOpsCalls, {<<"text", "text">>}, {FALSE})
          \/ GetQueueSize(c, MaxOpsCalls, OpsFaults)
          \/ ReturnSize(c)
          \/ Step(c, OpsFaults)

SpecOps == InitOps /\ [][NextOps]_vars

(***************************************************************************)
(* Properties                                                              *)
(***************************************************************************)
\* the breaker records the result of c's execution in this step
Records(c) == pc[c] \in {"exec", "reply"} /\ pc'[c] = "last"

\* the result of c's execution is counted: it was let through in the
\* breaker's current generation, which has not expired
Counted(c) == currentState(cb, now).generation = call[c].generation

\* c's call reaches the breaker in this step
Arrives(c) == pc[c] = "before" /\ pc'[c] # "before"

C2_OpenRejects ==
    /\ [](\A c \in Callers :
            call[c].cbSeen = "open" =>
                /\ pc[c] = "last"
                /\ call[c].err = "ErrOpenState"
                /\ ~call[c].invoked /\ ~call[c].pushed /\ ~call[c].expired
                /\ call[c].ids = <<>>)
    /\ [][ \A c \in Callers :
              (Arrives(c) /\ call'[c].cbSeen = "open") =>
                  (store' = store /\ isConnected' = isConnected) ]_vars

\* C2, witness: a SendBatch rejected by the open breaker, beside SendMessage
\* calls rejected before it
C2_Witness ==
    /\ cb.state = "open"
    /\ errorCount > TripThreshold + 2
    /\ \E c \in Callers : /\ pc[c] = "last"
                          /\ call[c].op = "batch"
                          /\ call[c].cbSeen = "open"

\* the number of trial calls a half-open breaker lets through
TrialQuota ==
    IF config.BreakerMaxRequests = 0 THEN 1 ELSE config.BreakerMaxRequests

\* calls already let through in the half-open period a call arrives in
TrialsBefore == IF cb.state = "half-open" THEN trial.admitted ELSE 0

\* C3 (as amended): a call that reaches the breaker after the open-timeout
\* has elapsed finds it half-open; a half-open breaker lets a call through
\* exactly while fewer than max(1, BreakerMaxRequests) calls have been let
\* through in that period, and rejects any other with ErrTooManyRequests
\* without invoking the transport; it returns to closed exactly when that
\* many trial calls have succeeded, with the consecutive-failure count at 0.
C3_TrialQuota ==
    /\ [](cb.state = "half-open" => trial.admitted <= TrialQuota)
    /\ [](\A c \in Callers :
            call[c].err = "ErrTooManyRequests" =>
                (pc[c] = "last" /\ call[c].cbSeen = "half-open" /\ ~call[c].invoked))
    /\ [][ \A c \in Callers :
              /\ (Arrives(c) /\ cb.state = "open" /\ now > cb.expiry) =>
                     call'[c].cbSeen = "half-open"
              /\ (Arrives(c) /\ call'[c].cbSeen = "half-open") =>
                     IF TrialsBefore < TrialQuota
                     THEN pc'[c] = "exec" /\ trial'.admitted = TrialsBefore + 1
                     ELSE /\ pc'[c] = "last"
                          /\ call'[c].err = "ErrTooManyRequests"
                          /\ store' = store ]_vars
    /\ [][ (cb.state = "half-open" /\ cb'.state = "closed") <=>
              \E c \in Callers : /\ Records(c)
                                 /\ call'[c].err = "nil"
                                 /\ cb.state = "half-open"
                                 /\ Counted(c)
                                 /\ trial.succeeded + 1 = TrialQuota ]_vars
    /\ [][ (cb.state = "half-open" /\ cb'.state = "closed") =>
              (cb'.counts.ConsecutiveFailures = 0 /\ streak' = 0) ]_vars

\* C3, witness: with a quota of 2, two trial calls were let through and
\* succeeded, a third call made beside the second was rejected, and the
\* breaker is closed again
C3_Witness ==
    /\ config.BreakerMaxRequests = 2
    /\ cb.state = "closed"
    /\ cb.events = <<[from |-> "closed", to |-> "open"],
                     [from |-> "open", to |-> "half-open"],
                     [from |-> "half-open", to |-> "closed"]>>
    /\ trial = [admitted |-> 2, succeeded |-> 2]
    /\ cb.counts.ConsecutiveFailures = 0
    /\ \E c \in Callers : pc[c] = "last" /\ call[c].err = "ErrTooManyRequests"

\* C3 (as stated): a half-open breaker lets a call through exactly while
\* fewer than BreakerMaxRequests calls have been let through.
C3_ConfiguredQuota ==
    [][ \A c \in Callers :
          (Arrives(c) /\ call'[c].cbSeen = "half-open") =>
              (pc'[c] = "exec" <=> TrialsBefore < config.BreakerMaxRequests) ]_vars

\* C4: a failed trial call recorded while the breaker is half-open opens it
\* again, with the open-timeout running from the moment of that failure,
\* whatever the number of trial calls that succeeded before.
C4_TrialFailureReopens ==
    [][ \A c \in Callers :
          (/\ Records(c)
           /\ call'[c].err # "nil"
           /\ cb.state = "half-open"
           /\ Counted(c)) =>
              (/\ cb'.state = "open"
               /\ cb'.expiry = now + BreakerTimeout
               /\ cb'.counts = ClearCounts) ]_vars

\* C4, witness: the breaker has just been opened again by the failure of
\* the second trial call, after the first one succeeded
C4_Witness ==
    /\ cb.state = "open"
    /\ cb.events = <<[from |-> "closed", to |-> "open"],
                     [from |-> "open", to |-> "half-open"],
                     [from |-> "half-open", to |-> "open"]>>
    /\ trial = [admitted |-> 2, succeeded |-> 1]
    /\ cb.expiry = now + BreakerTimeout
    /\ \E c \in Callers : pc[c] = "last" /\ call[c].err = "Transport"

\* C5 (as stated): a SendBatch of N >= 1 messages is all-or-nothing: when
\* it returns success its N envelopes are in the list and the key's
\* expiration was set to MessageTTL; when it returns a transport error it
\* has changed neither the list nor the expiration.
C5_BatchAllOrNothing ==
    \A c \in Callers :
        (pc[c] = "last" /\ call[c].op = "batch" /\ Len(call[c].msgs) >= 1) =>
            /\ call[c].err = "nil" =>
                  (/\ call[c].pushed
                   /\ Len(call[c].ids) = Len(call[c].msgs)
                   /\ call[c].expired
                   /\ call[c].ttl = MessageTTL)
            /\ call[c].err = "Transport" =>
                  (~call[c].pushed /\ ~call[c].expired)

\* C6 (as stated): in a send of one message the push and the expire are one
\* indivisible unit: no state has the envelope in the list without the
\* expiration set by the call, or the expiration set without the envelope.
C6_PushExpireIndivisible ==
    \A c \in Callers :
        call[c].op = "send" => (call[c].pushed <=> call[c].expired)

\* C7 (as stated): a call about to return an error of the admission gate,
\* the breaker, the transport or the codec has added exactly 1 to
\* errorCount, and lastError is that error once it has returned.
C7_EveryErrorCounted ==
    /\ [](\A c \in Callers :
            (/\ pc[c] \in {"early", "last"}
             /\ call[c].err \in {"RateLimited", "ErrOpenState",
                                 "ErrTooManyRequests", "Transport", "Serialize"})
                => call[c].errInc = 1)
    /\ [][ \A c \in Callers :
              (/\ pc[c] \in {"early", "last"}
               /\ pc'[c] = "idle"
               /\ call[c].err \in {"RateLimited", "ErrOpenState",
                                   "ErrTooManyRequests", "Transport", "Serialize"})
                  => lastError' = call[c].err ]_vars

\* messages of the successful calls, and failed calls, that are past
\* Execute and have not returned yet
RECURSIVE PendingMsgs(_)
PendingMsgs(S) ==
    IF S = {} THEN 0
    ELSE LET c == CHOOSE x \in S : TRUE
         IN  (IF pc[c] = "last" /\ call[c].err = "nil" THEN Len(call[c].msgs) ELSE 0)
             + PendingMsgs(S \ {c})

PendingErrors == Cardinality({c \in Callers : pc[c] = "last" /\ call[c].err # "nil"})

\* C8: no increment is lost: messagesSent is the number of messages of the
\* calls that succeeded, and errorCount the number of calls that failed in
\* Execute, counting the calls that have returned and those past Execute (so
\* the counters are exactly those totals once every call has returned); and
\* neither counter ever decreases.
C8_NoLostIncrement ==
    /\ [](/\ messagesSent = tally.okMsgs + PendingMsgs(Callers)
          /\ errorCount = tally.failedCalls + PendingErrors)
    /\ []((\A c \in Callers : pc[c] = "idle") =>
              (messagesSent = tally.okMsgs /\ errorCount = tally.failedCalls))
    /\ [][messagesSent' >= messagesSent /\ errorCount' >= errorCount]_vars

\* C8, witness: both callers have made calls at the same time and all have
\* returned: a batch of two messages was sent and one call failed
C8_Witness ==
    /\ \A c \in Callers : pc[c] = "idle" /\ nCalls[c] >= 1
    /\ tally.okMsgs = 2
    /\ tally.failedCalls = 1
    /\ messagesSent = 2
    /\ errorCount = 1

\* C9 (as stated): every health field is accessed atomically or under the
\* mutex: no two callers are at the same time about to write the same field
\* with a plain assignment.
C9_NoUnsynchronisedAccess ==
    \A c \in Callers, d \in Callers :
        c # d => PlainWrites(c) \cap PlainWrites(d) = {}

\* C10: a SendBatch with an empty list fails with EmptyBatch before the
\* limiter and the breaker: it takes no token, does not invoke the
\* transport, and neither its start nor its return changes the limiter,
\* the breaker, the store, the connection flag or the health fields.
C10_EmptyBatch ==
    /\ [](\A c \in Callers :
            (call[c].op = "batch" /\ call[c].msgs = <<>>) =>
                /\ pc[c] = "early"
                /\ call[c].err = "EmptyBatch"
                /\ ~call[c].tokenTaken
                /\ ~call[c].invoked
                /\ call[c].cbSeen = "none")
    /\ [][ \A c \in Callers :
              (\/ pc[c] = "idle" /\ call'[c].op = "batch" /\ call'[c].msgs = <<>>
               \/ call[c].op = "batch" /\ call[c].msgs = <<>> /\ pc'[c] # pc[c]) =>
                  /\ lim' = lim
                  /\ cb' = cb
                  /\ store' = store
                  /\ isConnected' = isConnected
                  /\ health' = health ]_vars

\* C10, witness: an empty SendBatch is about to return EmptyBatch while the
\* other caller's call holds the limiter's only token
C10_Witness ==
    \E c \in Callers, d \in Callers :
        /\ pc[c] = "early"
        /\ call[c].op = "batch"
        /\ call[c].err = "EmptyBatch"
        /\ call[d].tokenTaken
        /\ lim.tokens = 0

\* the errors the closure passed to Execute returns
ClosureErrors == {"Transport", "Serialize"}

\* C11 (as amended): the error Execute returns is the closure's own error,
\* or one of the breaker's two rejections: ErrOpenState when the call found
\* the breaker open, ErrTooManyRequests when it found it half-open with the
\* trial quota used up; a rejected call has not run the closure, so the two
\* kinds are told apart.
C11_ExecuteErrors ==
    /\ [](\A c \in Callers :
            pc[c] = "last" =>
                /\ call[c].err \in {"nil", "ErrOpenState", "ErrTooManyRequests"}
                                       \cup ClosureErrors
                /\ call[c].err = "ErrOpenState" <=> call[c].cbSeen = "open"
                /\ call[c].err = "ErrTooManyRequests" =>
                       (call[c].cbSeen = "half-open" /\ ~call[c].invoked)
                /\ call[c].err = "ErrOpenState" => ~call[c].invoked)
    /\ [][ \A c \in Callers :
              /\ Records(c) => call'[c].err \in {"nil"} \cup ClosureErrors
              /\ (Arrives(c) /\ pc'[c] = "last") =>
                     /\ call'[c].err \in {"ErrOpenState", "ErrTooManyRequests"}
                     /\ call'[c].err = "ErrTooManyRequests" <=>
                            (/\ call'[c].cbSeen = "half-open"
                             /\ TrialsBefore >= TrialQuota) ]_vars

\* C11, witness: beside a call let through as the second trial, a call was
\* rejected with ErrTooManyRequests, after calls rejected with ErrOpenState
C11_Witness ==
    /\ cb.state = "half-open"
    /\ trial = [admitted |-> 2, succeeded |-> 1]
    /\ errorCount > TripThreshold + 1
    /\ \E c \in Callers, d \in Callers :
          /\ pc[c] = "last" /\ call[c].err = "ErrTooManyRequests"
          /\ pc[d] \in {"exec", "expire", "reply"} /\ call[d].cbSeen = "half-open"

\* C11 (as stated): the error Execute returns is the closure's own error or
\* the single rejection of the open breaker.
C11_OneRejection ==
    \A c \in Callers :
        pc[c] = "last" =>
            call[c].err \in {"nil", "ErrOpenState"} \cup ClosureErrors

\* C12 (as stated): a send or a GetQueueSize that has called the transport
\* has taken a token of the limiter first and has been let through by the
\* breaker, in closed or half-open state.
C12_FunneledThroughGateAndBreaker ==
    \A c \in Callers :
        call[c].invoked =>
            (call[c].tokenTaken /\ call[c].cbSeen \in {"closed", "half-open"})

(***************************************************************************)
(* C13: a send whose context is cancelled while it sleeps in                *)
(* rateLimiter.Wait, before its token is due, leaves Wait at once with the  *)
(* RateLimited error and returns it: it does not pass the limiter, is not   *)
(* seen by the breaker, does not call the transport, and neither step       *)
(* changes the breaker, the store, the connection flag or the health        *)
(* fields.                                                                  *)
(***************************************************************************)
Untouched == UNCHANGED <<cb, list, expire, isConnected, messagesSent, errorCount,
                         lastSuccess, lastError, passes, built, options, codec, reading>>

C13_CancelledWait ==
    [][\A c \in Callers :
          /\ (/\ pc[c] = "sleep"
              /\ call[c].ctxDone
              /\ now < call[c].timeToAct
              /\ pc'[c] # "sleep")
             => (/\ pc'[c] = "early"
                 /\ call'[c].err = "RateLimited"
                 /\ ~call'[c].tokenTaken
                 /\ call'[c].cbSeen = "none"
                 /\ ~call'[c].invoked
                 /\ now' = now
                 /\ Untouched)
          /\ (pc[c] = "early" /\ pc'[c] # "early")
             => (pc'[c] = "idle" /\ Untouched)]_vars

C13_Witness ==
    \E c \in Callers :
        /\ pc[c] = "early"
        /\ call[c].err = "RateLimited"
        /\ call[c].op \in {"send", "batch"}
        /\ now < call[c].timeToAct

(***************************************************************************)
(* C14: the limiter is a token bucket of capacity RateLimitBurst refilled  *)
(* with RateLimitRequests tokens per time unit: of the calls of all        *)
(* callers, the ones that pass Wait with tokens granted for the times a..b *)
(* are at most RateLimitBurst + RateLimitRequests * (b - a), and no caller *)
(* goes on before the time its token is granted for; with capacity 1 and   *)
(* rate 1 the second of two immediate calls goes on one time unit after    *)
(* the first at the earliest.                                              *)
(***************************************************************************)
PassesWithin(a, b) == Cardinality({i \in DOMAIN passes : a <= passes[i] /\ passes[i] <= b})

C15_ConnectionFlag ==
    [][/\ \A c \in Callers :
            Records(c) =>
                IF call'[c].invoked
                THEN /\ isConnected' = (call'[c].err = "nil")
                     /\ call'[c].err \in {"nil", "Transport"}
                     /\ call'[c].err = "Transport" =>
                            call'[c].errText =
                                <<IF call[c].op = "batch"
                                  THEN "failed to send batch to queue "
                                  ELSE "failed to send message to queue ",
                                  call[c].queue, ": ", "Transport">>
                ELSE isConnected' = isConnected
       /\ report' # report =>
            report'.ConnectionState = IF isConnected THEN "connected"
                                                     ELSE "disconnected"
      ]_vars

\* a batch has failed in the transport of an open client and Health has
\* reported the sender disconnected since
C15_Witness ==
    /\ ~closed
    /\ ~isConnected
    /\ report # NoReport
    /\ report.ConnectionState = "disconnected"
    /\ \E c \in Callers :
          /\ pc[c] = "last"
          /\ call[c].op = "batch"
          /\ call[c].invoked
          /\ call[c].err = "Transport"

(***************************************************************************)
(* C16: whatever the counters, the Status Health reports is "unhealthy"    *)
(* when 2 * errorCount > messagesSent + 1, otherwise "degraded" when       *)
(* 10 * errorCount > messagesSent + 1, otherwise "healthy": 0 sent with 0  *)
(* errors and 10 sent with 0 errors are healthy, 10 sent with 2 errors is  *)
(* degraded, 10 sent with 6 errors is unhealthy.                           *)
(***************************************************************************)
Reported(sent, errors) ==
    report # NoReport /\ report.MessagesSent = sent /\ report.ErrorCount = errors

C16_HealthStatus ==
    /\ report # NoReport =>
          report.Status =
              IF 2 * report.ErrorCount > report.MessagesSent + 1 THEN "unhealthy"
              ELSE IF 10 * report.ErrorCount > report.MessagesSent + 1 THEN "degraded"
              ELSE "healthy"
    /\ Reported(0, 0) => report.Status = "healthy"
    /\ Reported(10, 0) => report.Status = "healthy"
    /\ Reported(10, 2) => report.Status = "degraded"
    /\ Reported(10, 6) => report.Status = "unhealthy"

\* the report of 10 sent with 6 errors
C16_Witness == Reported(10, 6) /\ report.Status = "unhealthy"

PopOrder(l) == Reverse(l)

C18_BatchOrder ==
    \A c \in Callers :
        (call[c].op = "batch" /\ pc[c] = "last" /\ call[c].err = "nil") =>
            LET l == PopOrder(list[getQueueKey(call[c].queue)])
                n == Len(call[c].ids)
            IN  /\ n = Len(call[c].msgs)
                /\ \E q \in 1..(Len(l) - n + 1) :
                      \A i \in 1..n : l[q + i - 1] = call[c].ids[i]

\* two batches of two under way at once, both successful, four envelopes in
\* the list
C18_Witness ==
    /\ \A c \in Callers :
          /\ call[c].op = "batch"
          /\ pc[c] = "last"
          /\ call[c].err = "nil"
          /\ Len(call[c].ids) = 2
    /\ \E k \in Keys : Len(list[k]) = 4

(***************************************************************************)
(* C19: a send call made after Close was called takes no token of the      *)
(* limiter, does not wait in it, does not reach the breaker and does not   *)
(* call the transport.                                                     *)
(***************************************************************************)
C19_ClosedToNewSends ==
    \A c \in Callers :
        (call[c].op \in {"send", "batch"} /\ call[c].afterClose)
            => (/\ ~call[c].tokenTaken
                /\ pc[c] \notin {"sleep", "before", "exec"}
                /\ ~call[c].invoked)

(***************************************************************************)
(* C20: a Close call that follows a Close call that returned nil returns   *)
(* nil as well and leaves the connection flag, the counters, the breaker   *)
(* and the closed client as they were.                                     *)
(***************************************************************************)
C20_CloseIdempotent ==
    [][(/\ Len(closeResult) >= 1
        /\ closeResult[1] = "nil"
        /\ Len(closeResult') = Len(closeResult) + 1)
       => (/\ closeResult'[Len(closeResult')] = "nil"
           /\ UNCHANGED <<isConnected, messagesSent, errorCount, cb, closed>>)]_vars

(***************************************************************************)
(* C21: GetQueueSize returns the length of the queue's list, 0 and no      *)
(* error for a queue that was never written or whose key has expired,      *)
(* unless LLen itself fails; from call to return it changes neither the    *)
(* store nor messagesSent, errorCount, lastError, lastSuccess, the         *)
(* connection flag, the breaker or the limiter.                            *)
(***************************************************************************)
\* the store has the key: a list exists as long as it holds a value
KeyExists(key) == list[key] # <<>>

ReadOnly == UNCHANGED <<list, expire, messagesSent, errorCount, lastError,
                        lastSuccess, isConnected, cb, lim>>

C21_QueueSizeIsRead ==
    [][\A c \in Callers :
          /\ (pc[c] = "idle" /\ pc'[c] = "sized")
             => (/\ ReadOnly
                 /\ call'[c].err \in {"nil", "Transport"}
                 /\ call'[c].err = "nil"
                       => call'[c].size = Len(list[getQueueKey(call'[c].queue)])
                 /\ (call'[c].err = "nil" /\ ~KeyExists(getQueueKey(call'[c].queue)))
                       => call'[c].size = 0)
          /\ (pc[c] = "sized" /\ pc'[c] # "sized")
             => (pc'[c] = "idle" /\ ReadOnly)]_vars

\* the size of a queue never written, asked while the other queue holds
\* envelopes, is 0
C21_Witness ==
    \E c \in Callers :
        /\ pc[c] = "sized"
        /\ call[c].queue = "audit"
        /\ call[c].err = "nil"
        /\ call[c].size = 0
        /\ list[getQueueKey("audit")] = <<>>
        /\ list[getQueueKey("orders")] # <<>>
        /\ \A d \in Callers : call[d].queue # "audit" \/ d = c

PushedTo(key) == {c \in Callers : call[c].pushed /\ getQueueKey(call[c].queue) = key}

IdsOf(S) == UNION {{call[c].ids[i] : i \in 1..Len(call[c].ids)} : c \in S}

Returns(c) == pc[c] = "last" /\ pc'[c] = "idle"

C23_BatchFailureCountedOnce ==
    [][\A c \in Callers :
          /\ (Records(c) /\ call'[c].op = "batch" /\ call'[c].err # "nil")
             => (/\ call'[c].err \in {"ErrOpenState", "ErrTooManyRequests",
                                      "Serialize", "Transport"}
                 /\ errorCount' = errorCount + 1
                 /\ messagesSent' = messagesSent)
          /\ (Returns(c) /\ call[c].op = "batch" /\ call[c].err # "nil")
             => (/\ call[c].errInc = 1
                 /\ call[c].sentInc = 0
                 /\ ErrorHandlerCalls(call[c]) = <<call[c].errText>>
                 /\ tally'.errorHandler = tally.errorHandler + 1
                 /\ tally'.successHandler = tally.successHandler
                 /\ UNCHANGED <<errorCount, messagesSent>>)]_vars

\* four sends and a batch have failed, the last of the five rejected by the
\* breaker the others opened: five errors counted, the error handler called
\* five times
C23_Witness ==
    /\ cb.state = "open"
    /\ lastError = "ErrOpenState"
    /\ \A c \in Callers : pc[c] = "idle"
    /\ nCalls = [c \in Callers |-> IF c = "c1" THEN TripThreshold + 1 ELSE 1]
    /\ errorCount = TripThreshold + 2
    /\ tally.errorHandler = TripThreshold + 2
    /\ tally.successHandler = 0
    /\ messagesSent = 0

(***************************************************************************)
(* C24: a call that returns nil calls the success handler once per message *)
(* (once for SendMessageWithTTL, N times with Position 0 .. N-1 in that    *)
(* order for a SendBatch of N) and the error handler not at all; a call    *)
(* that returns an error does not call the success handler and adds        *)
(* nothing to messagesSent.                                                *)
(***************************************************************************)
C24_SuccessHandlerPerMessage ==
    [][\A c \in Callers :
          /\ (Returns(c) /\ call[c].err = "nil")
             => LET calls == SuccessHandlerCalls(call[c])
                IN  /\ Len(calls) = Len(call[c].msgs)
                    /\ call[c].op = "send" => Len(calls) = 1
                    /\ \A i \in 1..Len(calls) :
                          calls[i].Position = i - 1 /\ calls[i].Queue = call[c].queue
                    /\ tally'.successHandler = tally.successHandler + Len(call[c].msgs)
                    /\ tally'.errorHandler = tally.errorHandler
                    /\ call[c].sentInc = Len(call[c].msgs)
                    /\ call[c].errInc = 0
          /\ (pc[c] \in {"last", "early"} /\ pc'[c] = "idle" /\ call[c].err # "nil")
             => (/\ tally'.successHandler = tally.successHandler
                 /\ call[c].sentInc = 0
                 /\ messagesSent' = messagesSent)]_vars

\* a batch of two has succeeded beside a successful send: the success
\* handler was called three times
C24_Witness ==
    /\ \A c \in Callers : pc[c] = "idle" /\ nCalls[c] = 1
    /\ messagesSent = 3
    /\ tally.successHandler = 3
    /\ tally.errorHandler = 0

(***************************************************************************)
(* C25: OnStateChange is called exactly when the breaker changes state,    *)
(* once, with the state it left and the state it entered, which differ;    *)
(* the events form a chain: the first leaves "closed", each starts where   *)
(* the one before ended, and the last ends in the breaker's current state. *)
(***************************************************************************)
EventChain(events, state) ==
    /\ \A i \in 1..Len(events) :
          /\ events[i].from # events[i].to
          /\ i < Len(events) => events[i].to = events[i + 1].from
    /\ state = IF events = <<>> THEN "closed" ELSE events[Len(events)].to
    /\ events # <<>> => events[1].from = "closed"

C25_StateChangeEvents ==
    /\ []EventChain(cb.events, cb.state)
    /\ [][cb'.events = IF cb'.state = cb.state THEN cb.events
                       ELSE Append(cb.events, [from |-> cb.state, to |-> cb'.state])
         ]_vars

\* the breaker has opened, gone half-open and closed again: three events
C25_Witness ==
    /\ cb.state = "closed"
    /\ cb.events = <<[from |-> "closed", to |-> "open"],
                     [from |-> "open", to |-> "half-open"],
                     [from |-> "half-open", to |-> "closed"]>>

(***************************************************************************)
(* SpecConfig: a Config is validated by LoadConfig, or handed to NewSender *)
(* as it was built.  The durations of these Configs are in microseconds.   *)
(***************************************************************************)
Millisecond == 1000
Second == 1000000

\* the Configs under validation: each field on both sides of its rule
Candidates ==
    [Address : {"", "valkey:6379"},
     Database : {-1, 15, 16},
     DialTimeout : {Millisecond - 1, Millisecond},
     ReadTimeout : {Millisecond - 1, Millisecond},
     WriteTimeout : {Millisecond - 1, Millisecond},
     PoolSize : {0, 1},
     MinIdleConns : {-1, 1, 2},
     DefaultQueue : {"", "orders"},
     MessageTTL : {Second - 1, Second},
     MaxRetries : {-1, 0},
     RetryDelay : {Millisecond - 1, Millisecond},
     TLSEnabled : BOOLEAN,
     TLSCertFile : {"", "cert.pem"},
     TLSKeyFile : {"", "key.pem"}]

\* a validate whose TLS rule asks for one of the two files only
validateEitherFile(c) ==
    IF c.Address = "" THEN "address cannot be empty"
    ELSE IF c.Database < 0 \/ c.Database > 15 THEN "database must be between 0 and 15"
    ELSE IF c.DialTimeout < Millisecond THEN "dial timeout must be at least 1ms"
    ELSE IF c.ReadTimeout < Millisecond THEN "read timeout must be at least 1ms"
    ELSE IF c.WriteTimeout < Millisecond THEN "write timeout must be at least 1ms"
    ELSE IF c.PoolSize < 1 THEN "pool size must be at least 1"
    ELSE IF c.MinIdleConns < 0 THEN "min idle connections cannot be negative"
    ELSE IF c.MinIdleConns > c.PoolSize THEN "min idle connections cannot exceed pool size"
    ELSE IF c.DefaultQueue = "" THEN "default queue name cannot be empty"
    ELSE IF c.MessageTTL < Second THEN "message TTL must be at least 1 second"
    ELSE IF c.MaxRetries < 0 THEN "max retries cannot be negative"
    ELSE IF c.RetryDelay < Millisecond THEN "retry delay must be at least 1ms"
    ELSE IF c.TLSEnabled /\ (c.TLSCertFile = "" /\ c.TLSKeyFile = "")
         THEN "TLS cert file and key file are required when TLS is enabled"
    ELSE "nil"

\* (c *Config) validate(): the first rule broken, in the order of the code
validate(c) ==
    IF c.Address = "" THEN "address cannot be empty"
    ELSE IF c.Database < 0 \/ c.Database > 15 THEN "database must be between 0 and 15"
    ELSE IF c.DialTimeout < Millisecond THEN "dial timeout must be at least 1ms"
    ELSE IF c.ReadTimeout < Millisecond THEN "read timeout must be at least 1ms"
    ELSE IF c.WriteTimeout < Millisecond THEN "write timeout must be at least 1ms"
    ELSE IF c.PoolSize < 1 THEN "pool size must be at least 1"
    ELSE IF c.MinIdleConns < 0 THEN "min idle connections cannot be negative"
    ELSE IF c.MinIdleConns > c.PoolSize THEN "min idle connections cannot exceed pool size"
    ELSE IF c.DefaultQueue = "" THEN "default queue name cannot be empty"
    ELSE IF c.MessageTTL < Second THEN "message TTL must be at least 1 second"
    ELSE IF c.MaxRetries < 0 THEN "max retries cannot be negative"
    ELSE IF c.RetryDelay < Millisecond THEN "retry delay must be at least 1ms"
    ELSE IF c.TLSEnabled /\ (c.TLSCertFile = "" \/ c.TLSKeyFile = "")
         THEN "TLS cert file and key file are required when TLS is enabled"
    ELSE "nil"

\* no sender yet: the Config exists, nothing has looked at it
InitConfig ==
    /\ now = 0
    /\ config \in {c @@ BreakerConfig(5) : c \in Candidates}
    /\ cb = NewCircuitBreaker(0)
    /\ lim = NewLimiter(config)
    /\ list = [k \in Keys |-> <<>>]
    /\ expire = [k \in Keys |-> 0]
    /\ messagesSent = 0
    /\ errorCount = 0
    /\ lastSuccess = 0
    /\ lastError = ""
    /\ isConnected = FALSE
    /\ pc = [c \in Callers |-> "idle"]
    /\ call = [c \in Callers |-> NoCall]
    /\ nCalls = [c \in Callers |-> 0]
    /\ nextId = 1
    /\ streak = 0
    /\ tstreak = 0
    /\ trial = [admitted |-> 0, succeeded |-> 0]
    /\ tally = [okMsgs |-> 0, failedCalls |-> 0, errorHandler |-> 0,
                successHandler |-> 0]
    /\ closed = FALSE
    /\ closeResult = <<>>
    /\ report = NoReport
    /\ passes = <<>>
    /\ built = [validated |-> "none", sender |-> "none"]
    /\ options = [QueueNamer |-> NoNamer]
    /\ codec = NoCodec
    /\ reading = NoReading

\* LoadConfig's last step: validate the Config it assembled and return it, or
\* the error wrapped as "configuration validation failed"
LoadConfig ==
    /\ built = [validated |-> "none", sender |-> "none"]
    /\ built' = [built EXCEPT !.validated = validate(config)]
    /\ UNCHANGED <<now, config, cb, lim, list, expire, messagesSent, errorCount,
                   lastSuccess, lastError, isConnected, pc, call, nCalls, nextId,
                   streak, tstreak, trial, tally, closed, closeResult, report,
                   passes, options, codec, reading>>

\* NewSender(config, options) for a Config LoadConfig returned or one built
\* directly: breaker and limiter are made, initClient may fail to load the
\* key pair, testConnection pings and sets the connection flag
NewSender ==
    /\ built.sender = "none"
    /\ built.validated \in {"none", "nil"}
    /\ cb' = NewCircuitBreaker(now)
    /\ lim' = NewLimiter(config)
    /\ \/ /\ config.TLSEnabled /\ config.TLSCertFile # "" /\ config.TLSKeyFile # ""
          /\ built' = [built EXCEPT !.sender = "failed to load TLS certificate"]
          /\ UNCHANGED <<isConnected, lastSuccess>>
       \/ /\ built' = [built EXCEPT !.sender = "failed to ping Valkey"]
          /\ isConnected' = FALSE
          /\ UNCHANGED lastSuccess
       \/ /\ built' = [built EXCEPT !.sender = "sender"]
          /\ isConnected' = TRUE
          /\ lastSuccess' = now
    /\ UNCHANGED <<now, config, list, expire, messagesSent, errorCount,
                   lastError, pc, call, nCalls, nextId,
                   streak, tstreak, trial, tally, closed, closeResult, report,
                   passes, options, codec, reading>>

NextConfig == LoadConfig \/ NewSender

SpecConfig == InitConfig /\ [][NextConfig]_vars

\* the rules the Config must satisfy
ViolatesRule(c) ==
    \/ c.Address = ""
    \/ c.Database \notin 0..15
    \/ c.DialTimeout < Millisecond
    \/ c.ReadTimeout < Millisecond
    \/ c.WriteTimeout < Millisecond
    \/ c.PoolSize < 1
    \/ c.MinIdleConns > c.PoolSize
    \/ c.DefaultQueue = ""
    \/ c.MessageTTL < Second
    \/ c.TLSEnabled /\ (c.TLSCertFile = "" \/ c.TLSKeyFile = "")

(***************************************************************************)
(* C26: NewSender never returns a sender whose Config violates a           *)
(* validation rule, whether the Config came from LoadConfig or was built   *)
(* directly.                                                               *)
(***************************************************************************)
C26_SenderConfigValid ==
    built.sender = "sender" => ~ViolatesRule(config)

(***************************************************************************)
(* C27: validate returns an error for every Config that violates at least  *)
(* one rule, and no error for a Config that satisfies them all and has     *)
(* MaxRetries >= 0, RetryDelay >= 1ms and MinIdleConns >= 0.               *)
(***************************************************************************)
C27_Validate ==
    built.validated # "none" =>
        /\ ViolatesRule(config) => built.validated # "nil"
        /\ ( /\ ~ViolatesRule(config)
             /\ config.MaxRetries >= 0
             /\ config.RetryDelay >= Millisecond
             /\ config.MinIdleConns >= 0 ) => built.validated = "nil"

\* a Config that passed every rule before the TLS rule was refused for its
\* missing key file
C27_Witness ==
    /\ built.validated = "TLS cert file and key file are required when TLS is enabled"
    /\ config.TLSCertFile # ""
    /\ config.TLSKeyFile = ""

(***************************************************************************)
(* SpecKeys: the sends, batches and size queries of SpecStore by a sender  *)
(* built without a QueueNamer, or with one of two                          *)
(***************************************************************************)
InitKeys == InitOptions({BreakerConfig(5)}, {NoNamer} \cup QueueNamers)

SpecKeys == InitKeys /\ [][NextStore]_vars

\* the list a logical queue name stands for: the configured resolver's
\* result, "queue:" + name when none is configured
Resolved(q) ==
    IF options.QueueNamer = NoNamer THEN <<"queue:", q>> ELSE options.QueueNamer[q]

(***************************************************************************)
(* C28: the key of a queue is a function of its name alone, "queue:" +     *)
(* name by default and the configured resolver's result otherwise, and     *)
(* every operation uses it: the LPUSH of a send or batch to q changes the  *)
(* list of that key and no other, its EXPIRE the expiration of that key    *)
(* and no other, GetQueueSize(q) returns the length of that same list, and *)
(* under the default policy distinct names have distinct keys; no step     *)
(* changes the options.                                                    *)
(***************************************************************************)
C28_QueueKey ==
    /\ [](options.QueueNamer = NoNamer =>
             \A q1, q2 \in TwoQueues : q1 # q2 => Resolved(q1) # Resolved(q2))
    /\ [][/\ options' = options
          /\ \A c \in Callers :
                /\ (~call[c].pushed /\ call'[c].pushed) =>
                       list' = [list EXCEPT ![Resolved(call'[c].queue)] =
                                                LPush(@, call'[c].ids)]
                /\ (~call[c].expired /\ call'[c].expired) =>
                       \A k \in Keys \ {Resolved(call'[c].queue)} :
                           expire'[k] = expire[k]
                /\ (pc[c] = "idle" /\ pc'[c] = "sized" /\ call'[c].err = "nil") =>
                       call'[c].size = Len(list[Resolved(call'[c].queue)])
         ]_vars

\* a sender with the tenant resolver: one caller's batch to "orders" is in
\* the tenant's list, the default key is empty, and the other caller's
\* GetQueueSize("orders") has counted the two envelopes
C28_Witness ==
    /\ options.QueueNamer = TenantNamer
    /\ list[<<"queue:", "orders">>] = <<>>
    /\ \E c, d \in Callers :
          /\ call[c].op = "batch" /\ call[c].queue = "orders" /\ call[c].pushed
          /\ pc[d] = "sized" /\ call[d].queue = "orders"
          /\ call[d].size = 2
          /\ Len(list[<<"tenant-7:", "orders">>]) = 2

(***************************************************************************)
(* SpecStamps: sends and batches of two and three messages by two callers, *)
(* the clock free to move while a call builds its envelopes                *)
(***************************************************************************)
StampBatches == {<<"text", "text">>, <<"text", "text", "text">>}

NextStamps ==
    \E c \in Callers :
        \/ SendMessageWithTTLTo(c, StoreCalls(c), Queues, {"text"}, {MessageTTL}, {FALSE})
        \/ SendBatchTo(c, StoreCalls(c), Queues, StampBatches, {FALSE})
        \/ Step(c, {"refused", "drift"})

InitStamps == InitWith({BreakerConfig(5)})

SpecStamps == InitStamps /\ [][NextStamps]_vars

(***************************************************************************)
(* C29: the envelopes built by one SendBatch call carry pairwise distinct  *)
(* ids and the same submission timestamp, and no two envelopes pushed to   *)
(* the store share an id.                                                  *)
(***************************************************************************)
C29_BatchEnvelopes ==
    /\ \A c \in Callers :
          call[c].op = "batch" =>
              /\ \A i, j \in DOMAIN call[c].ids :
                     i # j => call[c].ids[i] # call[c].ids[j]
              /\ \A i, j \in DOMAIN call[c].stamps :
                     call[c].stamps[i] = call[c].stamps[j]
    /\ \A k1, k2 \in Keys : \A i \in DOMAIN list[k1], j \in DOMAIN list[k2] :
          (k1 # k2 \/ i # j) => list[k1][i] # list[k2][j]

(***************************************************************************)
(* SpecCodec: JSONSerializer.Serialize applied to a payload, and           *)
(* Deserialize applied to the bytes with a target of the payload's type.   *)
(* A Go string and a []byte are sequences of bytes; a JSON text is the     *)
(* sequence of its tokens.                                                 *)
(***************************************************************************)
MaxText == 3
MaxBinary == 3
Quote == 34
Backslash == 92
Pad == 64

Texts == SeqsUpTo({Quote, 97}, MaxText)
Binaries == SeqsUpTo({0, 255}, MaxBinary)
HeaderMaps == {<<>>, [h \in {"content-type"} |-> <<97>>]}

\* the messages handed to Serialize: nil, strings, byte slices, user
\* registration data and message envelopes
Payloads ==
    {[type |-> "nil"]}
      \cup [type : {"string"}, v : Texts]
      \cup [type : {"[]byte"}, v : Binaries]
      \cup [type : {"UserRegistrationData"}, Name : {<<>>, <<97>>, <<Quote>>},
            TelegramUserID : {0, 7}, TelegramUsername : {<<>>, <<97>>}]
      \cup [type : {"MessageEnvelope"}, ID : {<<97>>},
            Payload : SeqsUpTo({0, 255}, 2), Headers : HeaderMaps]

\* the zero value a target of a payload's type holds before Deserialize
Zero(type) ==
    CASE type = "string" -> [type |-> type, v |-> <<>>]
      [] type = "[]byte" -> [type |-> type, v |-> <<>>]
      [] type = "UserRegistrationData" ->
            [type |-> type, Name |-> <<>>, TelegramUserID |-> 0,
             TelegramUsername |-> <<>>]
      [] type = "MessageEnvelope" ->
            [type |-> type, ID |-> <<>>, Payload |-> <<>>, Headers |-> <<>>]

\* encoding/json: a string literal, its quotes and backslashes escaped
RECURSIVE Escape(_)
Escape(s) ==
    IF s = <<>> THEN <<>>
    ELSE (IF Head(s) \in {Quote, Backslash} THEN <<Backslash, Head(s)>>
                                           ELSE <<Head(s)>>) \o Escape(Tail(s))

RECURSIVE Unescape(_)
Unescape(s) ==
    IF s = <<>> THEN <<>>
    ELSE IF Head(s) = Backslash THEN <<s[2]>> \o Unescape(Tail(Tail(s)))
    ELSE <<Head(s)>> \o Unescape(Tail(s))

JSONString(s) == [json |-> "string", text |-> <<Quote>> \o Escape(s) \o <<Quote>>]
StringOf(lit) == Unescape(SubSeq(lit.text, 2, Len(lit.text) - 1))

\* encoding/json writes a []byte as a base64 string: the sextets of up to
\* three bytes, padded
Base64(b) ==
    CASE Len(b) = 0 -> <<>>
      [] Len(b) = 1 -> <<b[1] \div 4, (b[1] % 4) * 16, Pad, Pad>>
      [] Len(b) = 2 -> <<b[1] \div 4, (b[1] % 4) * 16 + b[2] \div 16,
                         (b[2] % 16) * 4, Pad>>
      [] Len(b) = 3 -> <<b[1] \div 4, (b[1] % 4) * 16 + b[2] \div 16,
                         (b[2] % 16) * 4 + b[3] \div 64, b[3] % 64>>

Unbase64(s) ==
    IF s = <<>> THEN <<>>
    ELSE IF s[3] = Pad THEN <<s[1] * 4 + s[2] \div 16>>
    ELSE IF s[4] = Pad THEN <<s[1] * 4 + s[2] \div 16, (s[2] % 16) * 16 + s[3] \div 4>>
    ELSE <<s[1] * 4 + s[2] \div 16, (s[2] % 16) * 16 + s[3] \div 4,
           (s[3] % 4) * 64 + s[4]>>

\* the members of a JSON object written for a map[string]string
RECURSIVE MapMembers(_, _)
MapMembers(h, keys) ==
    IF keys = {} THEN <<>>
    ELSE LET k == CHOOSE key \in keys : TRUE
         IN  <<[key |-> k, value |-> JSONString(h[k])]>> \o MapMembers(h, keys \ {k})

\* json.Marshal of a struct: one member per field in the order of the
\* declaration, under the name of its tag; an omitempty field that is
\* empty is left out
Marshal(x) ==
    CASE x.type = "UserRegistrationData" ->
            <<[key |-> "name", value |-> JSONString(x.Name)],
              [key |-> "telegram_user_id",
               value |-> [json |-> "number", n |-> x.TelegramUserID]]>>
            \o (IF x.TelegramUsername = <<>> THEN <<>>
                ELSE <<[key |-> "telegram_username",
                        value |-> JSONString(x.TelegramUsername)]>>)
      [] x.type = "MessageEnvelope" ->
            <<[key |-> "id", value |-> JSONString(x.ID)],
              [key |-> "payload",
               value |-> [json |-> "string", base64 |-> Base64(x.Payload)]]>>
            \o (IF DOMAIN x.Headers = {} THEN <<>>
                ELSE <<[key |-> "headers",
                        value |-> [json |-> "object",
                                   members |-> MapMembers(x.Headers, DOMAIN x.Headers)]]>>)

\* the value of the member named key, or none
Member(members, key) ==
    LET at == {i \in DOMAIN members : members[i].key = key}
    IN  IF at = {} THEN [json |-> "absent"] ELSE members[CHOOSE i \in at : TRUE].value

\* the JSON type of the member a field of a struct is decoded from
FieldJSON ==
    [name |-> "string", telegram_user_id |-> "number",
     telegram_username |-> "string", id |-> "string", payload |-> "string",
     headers |-> "object"]

\* json.Unmarshal sets a field from its member when the member is there and
\* of the field's JSON type, and leaves the field alone otherwise
Sets(members, key) == Member(members, key).json = FieldJSON[key]

\* a member of another JSON type than its field's: an UnmarshalTypeError
Mismatch(members) ==
    \E i \in DOMAIN members :
        /\ members[i].key \in DOMAIN FieldJSON
        /\ members[i].value.json # FieldJSON[members[i].key]

\* json.Unmarshal into a target holding z: each member present sets its
\* field, the other fields stay as they were
Unmarshal(members, z) ==
    CASE z.type = "UserRegistrationData" ->
            [type |-> z.type,
             Name |-> IF Sets(members, "name")
                      THEN StringOf(Member(members, "name")) ELSE z.Name,
             TelegramUserID |->
                      IF Sets(members, "telegram_user_id")
                      THEN Member(members, "telegram_user_id").n
                      ELSE z.TelegramUserID,
             TelegramUsername |->
                      IF Sets(members, "telegram_username")
                      THEN StringOf(Member(members, "telegram_username"))
                      ELSE z.TelegramUsername]
      [] z.type = "MessageEnvelope" ->
            [type |-> z.type,
             ID |-> IF Sets(members, "id")
                    THEN StringOf(Member(members, "id")) ELSE z.ID,
             Payload |-> IF Sets(members, "payload")
                         THEN Unbase64(Member(members, "payload").base64)
                         ELSE z.Payload,
             Headers |-> IF Sets(members, "headers")
                         THEN LET ms == Member(members, "headers").members
                                  new == {ms[i].key : i \in DOMAIN ms}
                              IN  [k \in new \cup DOMAIN z.Headers |->
                                      IF k \in new THEN StringOf(Member(ms, k))
                                      ELSE z.Headers[k]]
                         ELSE z.Headers]

\* the braces of a JSON object
LBrace == 123
RBrace == 125

\* the bytes are the text of a JSON object
IsObject(data) ==
    /\ Len(data) >= 2
    /\ data[1] = LBrace
    /\ data[Len(data)] = RBrace

\* JSONSerializer.Serialize: nil is refused, a string gives its bytes, a
\* []byte gives itself, anything else its JSON text
SerializeOf(message) ==
    CASE message.type = "nil" -> [data |-> <<>>, err |-> "message cannot be nil"]
      [] message.type = "string" -> [data |-> message.v, err |-> "nil"]
      [] message.type = "[]byte" -> [data |-> message.v, err |-> "nil"]
      [] OTHER -> [data |-> <<LBrace>> \o Marshal(message) \o <<RBrace>>,
                   err |-> "nil"]

\* a Deserialize that clears its target before it looks at the data
DeserializeCleared(data, target) ==
    IF Len(data) = 0
    THEN [value |-> IF target.type = "nil" THEN target ELSE Zero(target.type),
          err |-> "data cannot be empty"]
    ELSE IF target.type = "nil"
    THEN [value |-> target, err |-> "target cannot be nil"]
    ELSE IF target.type \in {"string", "[]byte"}
    THEN [value |-> [type |-> target.type, v |-> data], err |-> "nil"]
    ELSE IF ~IsObject(data)
    THEN [value |-> Zero(target.type), err |-> "failed to deserialize JSON to target"]
    ELSE [value |-> Unmarshal(SubSeq(data, 2, Len(data) - 1), Zero(target.type)),
          err |-> IF Mismatch(SubSeq(data, 2, Len(data) - 1))
                  THEN "failed to deserialize JSON to target" ELSE "nil"]

\* JSONSerializer.Deserialize(data, target), target pointing at a value:
\* empty data and a nil target are refused and the target left as it was; a
\* *string takes the bytes, a *[]byte a copy of them, anything else is
\* unmarshalled from the JSON text, which fails when the text is no JSON or
\* a member has the wrong type
DeserializeOf(data, target) ==
    IF Len(data) = 0
    THEN [value |-> target, err |-> "data cannot be empty"]
    ELSE IF target.type = "nil"
    THEN [value |-> target, err |-> "target cannot be nil"]
    ELSE IF target.type \in {"string", "[]byte"}
    THEN [value |-> [type |-> target.type, v |-> data], err |-> "nil"]
    ELSE IF ~IsObject(data)
    THEN [value |-> target, err |-> "failed to deserialize JSON to target"]
    ELSE [value |-> Unmarshal(SubSeq(data, 2, Len(data) - 1), target),
          err |-> IF Mismatch(SubSeq(data, 2, Len(data) - 1))
                  THEN "failed to deserialize JSON to target" ELSE "nil"]

\* the targets handed to Deserialize: nil, or a pointer to a value set before
Targets ==
    {[type |-> "nil"],
     [type |-> "string", v |-> <<97>>],
     [type |-> "[]byte", v |-> <<255>>],
     [type |-> "UserRegistrationData", Name |-> <<97>>, TelegramUserID |-> 7,
      TelegramUsername |-> <<97>>],
     [type |-> "MessageEnvelope", ID |-> <<97>>, Payload |-> <<255>>,
      Headers |-> [h \in {"content-type"} |-> <<97>>]]}

\* the data handed to Deserialize: nothing, bytes that are no JSON ("a",
\* "{a"), the empty object, the JSON text of a user registration and of an
\* envelope, and an object whose name is a number
Datas ==
    {<<>>, <<97>>, <<LBrace, 97>>, <<LBrace, RBrace>>,
     SerializeOf([type |-> "UserRegistrationData", Name |-> <<Quote>>,
                  TelegramUserID |-> 0, TelegramUsername |-> <<>>]).data,
     SerializeOf([type |-> "MessageEnvelope", ID |-> <<97>>,
                  Payload |-> <<0, 255>>, Headers |-> <<>>]).data,
     <<LBrace, [key |-> "name", value |-> [json |-> "number", n |-> 5]],
       [key |-> "telegram_user_id", value |-> [json |-> "number", n |-> 5]],
       RBrace>>}

InitCodec ==
    /\ now = 0
    /\ config = BreakerConfig(5)
    /\ cb = NewCircuitBreaker(0)
    /\ lim = NewLimiter(config)
    /\ list = [k \in Keys |-> <<>>]
    /\ expire = [k \in Keys |-> 0]
    /\ messagesSent = 0
    /\ errorCount = 0
    /\ lastSuccess = 0
    /\ lastError = ""
    /\ isConnected = TRUE
    /\ pc = [c \in Callers |-> "idle"]
    /\ call = [c \in Callers |-> NoCall]
    /\ nCalls = [c \in Callers |-> 0]
    /\ nextId = 1
    /\ streak = 0
    /\ tstreak = 0
    /\ trial = [admitted |-> 0, succeeded |-> 0]
    /\ tally = [okMsgs |-> 0, failedCalls |-> 0, errorHandler |-> 0,
                successHandler |-> 0]
    /\ closed = FALSE
    /\ closeResult = <<>>
    /\ report = NoReport
    /\ passes = <<>>
    /\ built = Built
    /\ options = [QueueNamer |-> NoNamer]
    /\ reading = NoReading
    /\ codec \in [stage : {"message"}, x : Payloads]
                    \cup [stage : {"data"}, data : Datas, target : Targets]

\* serializer.Serialize(message)
Serialize ==
    /\ codec.stage = "message"
    /\ LET r == SerializeOf(codec.x)
       IN  codec' = [stage |-> "serialized", x |-> codec.x,
                     data |-> r.data, err |-> r.err]
    /\ UNCHANGED <<now, config, cb, lim, list, expire, messagesSent, errorCount,
                   lastSuccess, lastError, isConnected, pc, call, nCalls, nextId,
                   streak, tstreak, trial, tally, closed, closeResult, report,
                   passes, built, options, reading>>

\* serializer.Deserialize(data, &target): of the bytes Serialize returned,
\* into a fresh variable of the message's type; or of the data given, into
\* the target given
Deserialize ==
    /\ \/ /\ codec.stage = "serialized"
          /\ codec.err = "nil"
          /\ LET r == DeserializeOf(codec.data, Zero(codec.x.type))
             IN  codec' = [stage |-> "deserialized", x |-> codec.x,
                           data |-> codec.data, err |-> r.err, value |-> r.value]
       \/ /\ codec.stage = "data"
          /\ LET r == DeserializeOf(codec.data, codec.target)
             IN  codec' = [stage |-> "decoded", data |-> codec.data,
                           target |-> codec.target, err |-> r.err,
                           value |-> r.value]
    /\ UNCHANGED <<now, config, cb, lim, list, expire, messagesSent, errorCount,
                   lastSuccess, lastError, isConnected, pc, call, nCalls, nextId,
                   streak, tstreak, trial, tally, closed, closeResult, report,
                   passes, built, options, reading>>

NextCodec == Serialize \/ Deserialize

SpecCodec == InitCodec /\ [][NextCodec]_vars

(***************************************************************************)
(* C30: for every payload the codec can encode, Deserialize applied to the *)
(* bytes of Serialize, with a target of the payload's type, succeeds and   *)
(* yields a value equal to the payload: for strings, byte slices, user     *)
(* registration data and message envelopes.                                *)
(***************************************************************************)
C30_RoundTrip ==
    codec.stage = "deserialized" =>
        /\ codec.err = "nil"
        /\ codec.value = codec.x

(***************************************************************************)
(* C31: the codec fails, and gives no output, on every invalid input:      *)
(* Serialize of a nil message returns an error and no bytes; Deserialize   *)
(* returns an error for empty data, for a nil target, and for data that is *)
(* no JSON object or has a member of the wrong type when the target is a   *)
(* struct; for empty data and for a nil target the target is as it was.    *)
(***************************************************************************)
C31_InvalidInput ==
    /\ (codec.stage = "serialized" /\ codec.x.type = "nil") =>
           codec.err # "nil" /\ codec.data = <<>>
    /\ codec.stage = "decoded" =>
           /\ (codec.data = <<>> \/ codec.target.type = "nil") =>
                  codec.err # "nil" /\ codec.value = codec.target
           /\ ( /\ codec.data # <<>>
                /\ codec.target.type \in {"UserRegistrationData", "MessageEnvelope"}
                /\ \/ ~IsObject(codec.data)
                   \/ Mismatch(SubSeq(codec.data, 2, Len(codec.data) - 1)) ) =>
                  codec.err # "nil"

\* empty data was refused and the registration the target held is still there
C31_Witness ==
    /\ codec.stage = "decoded"
    /\ codec.data = <<>>
    /\ codec.target.type = "UserRegistrationData"
    /\ codec.err = "data cannot be empty"
    /\ codec.value.Name = <<97>>

(***************************************************************************)
(* SpecPoison: batches with a nil message at the first, the second or the  *)
(* third place, beside sends and batches that reach the store or are       *)
(* refused by it                                                           *)
(***************************************************************************)
PoisonBatches ==
    {<<"nil", "text">>, <<"text", "nil">>, <<"text", "text", "nil">>,
     <<"text", "text">>}

InitPoison == InitWith({BreakerConfig(5)})

NextPoison ==
    \E c \in Callers :
        \/ SendMessageWithTTLTo(c, StoreCalls(c), Queues, {"text"}, TTLs, {FALSE})
        \/ SendBatchTo(c, StoreCalls(c), Queues, PoisonBatches, {FALSE})
        \/ Step(c, {"refused"})

SpecPoison == InitPoison /\ [][NextPoison]_vars

\* the batch of the call holds a message the codec refuses
Poisoned(k) == k.op = "batch" /\ \E i \in DOMAIN k.msgs : k.msgs[i] = "nil"

(***************************************************************************)
(* C32: a SendBatch one of whose messages the codec refuses, at any index, *)
(* returns the codec's error without contacting the transport: the step in *)
(* which its closure returns leaves the lists, the expirations and the     *)
(* connection flag as they were, the call never pushes an envelope and     *)
(* never executes a pipeline, and the only other errors it can return are  *)
(* the breaker's rejections.                                               *)
(***************************************************************************)
C32_PoisonedBatch ==
    /\ [](\A c \in Callers :
            Poisoned(call[c]) =>
                /\ ~call[c].pushed /\ ~call[c].invoked /\ call[c].ids = <<>>
                /\ pc[c] = "last" =>
                       call[c].err \in {"Serialize", "ErrOpenState",
                                        "ErrTooManyRequests"})
    /\ [][\A c \in Callers :
            (Poisoned(call[c]) /\ pc[c] = "exec" /\ pc'[c] # "exec") =>
                /\ call'[c].err = "Serialize"
                /\ list' = list /\ expire' = expire
                /\ isConnected' = isConnected
         ]_vars

\* a batch whose third message is nil is about to return the codec's error
\* while the connection flag is down from the other caller's refused send
\* and the list holds nothing
C32_Witness ==
    \E c \in Callers :
        /\ call[c].msgs = <<"text", "text", "nil">>
        /\ pc[c] = "last"
        /\ call[c].err = "Serialize"
        /\ ~isConnected
        /\ list[getQueueKey("orders")] = <<>>

(***************************************************************************)
(* C33: only transport failures advance the breaker's count of consecutive *)
(* failures: the step in which a closure returns the codec's error leaves  *)
(* the breaker as the passing of time alone would have it, its state and   *)
(* its counters unchanged, and the breaker is never opened by that step.   *)
(***************************************************************************)
C33_CodecFailuresUncounted ==
    [][\A c \in Callers :
          (pc[c] = "exec" /\ pc'[c] = "last" /\ call'[c].err = "Serialize") =>
              /\ cb' = currentState(cb, now)
              /\ cb'.state # "open" \/ cb.state = "open"
      ]_vars

(***************************************************************************)
(* SpecRecover: one caller sends one message after another; the transport  *)
(* may refuse its first calls, enough of them to open the breaker, and     *)
(* serves every later call.  The clock keeps ticking and the caller keeps  *)
(* calling, as long as the bounds allow.                                   *)
(***************************************************************************)
\* the transport refuses a pipeline only in the caller's first calls
RecoverFaults(c) == IF nCalls[c] <= TripThreshold + 1 THEN {"refused"} ELSE {}

CallerStep(c) ==
    \/ SendMessageWithTTL(c, IF c = "c1" THEN MaxRecoverCalls ELSE 0,
                          {"text"}, {MessageTTL}, {FALSE})
    \/ Step(c, RecoverFaults(c))

NextRecover ==
    \/ Tick(MaxRecoverTime)
    \/ \E c \in Callers : CallerStep(c)

SpecRecover ==
    /\ InitBreaker
    /\ [][NextRecover]_vars
    /\ WF_vars(Tick(MaxRecoverTime))
    /\ \A c \in Callers : WF_vars(CallerStep(c))

\* calls the caller can still start
CallsLeft == MaxRecoverCalls - nCalls["c1"]

LastSuccessRead ==
    {lastSuccess} \cup {now : c \in {d \in Callers : "lastSuccess" \in PlainWrites(d)}}

\* the same for lastError
LastErrorRead ==
    {lastError} \cup {call[c].err : c \in {d \in Callers : "lastError" \in PlainWrites(d)}}

HealthLoad ==
    /\ \/ /\ reading.at = "none"
          /\ reading' = [at |-> "errors",
                         ConnectionState |-> IF isConnected THEN "connected"
                                                            ELSE "disconnected"]
       \/ /\ reading.at = "errors"
          /\ reading' = [reading EXCEPT !.at = "sent"] @@ [errors |-> errorCount]
       \/ /\ reading.at = "sent"
          /\ reading' = [at |-> "LastSuccess",
                         ConnectionState |-> reading.ConnectionState,
                         Status |-> HealthStatusOf(reading.errors, messagesSent)]
       \/ /\ reading.at = "LastSuccess"
          /\ \E v \in LastSuccessRead :
                reading' = [reading EXCEPT !.at = "LastError"] @@ [LastSuccess |-> v]
       \/ /\ reading.at = "LastError"
          /\ \E v \in LastErrorRead :
                reading' = [reading EXCEPT !.at = "ErrorCount"] @@ [LastError |-> v]
       \/ /\ reading.at = "ErrorCount"
          /\ reading' = [reading EXCEPT !.at = "MessagesSent"]
                            @@ [ErrorCount |-> errorCount]
       \/ /\ reading.at = "MessagesSent"
          /\ reading' = [reading EXCEPT !.at = "Uptime"]
                            @@ [MessagesSent |-> messagesSent]
       \/ /\ reading.at = "Uptime"
          /\ reading' = [reading EXCEPT !.at = "CircuitBreaker"] @@ [Uptime |-> now]
    /\ UNCHANGED <<now, config, cb, lim, list, expire, messagesSent, errorCount,
                   lastSuccess, lastError, isConnected, pc, call, nCalls,
                   nextId, streak, tstreak, trial, tally, closed, closeResult,
                   report, passes, built, options, codec>>

\* circuitBreaker.State() brings the breaker up to date; Health returns
HealthReturn ==
    LET b == currentState(cb, now)
    IN  /\ reading.at = "CircuitBreaker"
        /\ report' = [Status |-> reading.Status,
                      LastSuccess |-> reading.LastSuccess,
                      LastError |-> reading.LastError,
                      ErrorCount |-> reading.ErrorCount,
                      MessagesSent |-> reading.MessagesSent,
                      Uptime |-> reading.Uptime,
                      ConnectionState |-> reading.ConnectionState,
                      CircuitBreaker |-> b.state]
        /\ reading' = NoReading
        /\ cb' = b
        /\ streak' = IF b.generation # cb.generation THEN 0 ELSE streak
        /\ tstreak' = IF b.state # cb.state THEN 0 ELSE tstreak
        /\ trial' = IF b.state = "half-open" /\ cb.state # "half-open"
                    THEN [admitted |-> 0, succeeded |-> 0] ELSE trial
        /\ UNCHANGED <<now, config, lim, list, expire, messagesSent, errorCount,
                       lastSuccess, lastError, isConnected, pc, call, nCalls,
                       nextId, tally, closed, closeResult, passes, built,
                       options, codec>>

(***************************************************************************)
(* SpecSnapshot: Health called again and again while two callers send, the *)
(* transport refusing some of their pipelines.                             *)
(***************************************************************************)
NextSnapshot ==
    \/ Tick(MaxSnapshotTime)
    \/ HealthLoad
    \/ HealthReturn
    \/ \E c \in Callers :
          \/ SendMessageWithTTL(c, MaxSnapshotCalls, {"text"}, {MessageTTL}, {FALSE})
          \/ Step(c, {"refused"})

SpecSnapshot == InitBreaker /\ [][NextSnapshot]_vars

(***************************************************************************)
(* C35: a Health snapshot is consistent in itself under concurrent         *)
(* senders: the Status it reports is the status the error-rate thresholds  *)
(* give for the ErrorCount and MessagesSent it reports.                    *)
(***************************************************************************)
C35_SnapshotConsistent ==
    report # NoReport =>
        report.Status = HealthStatusOf(report.ErrorCount, report.MessagesSent)

(***************************************************************************)
(* SpecProbe: Health called at any moment while one caller sends message   *)
(* after message through a transport that may refuse them, over a time     *)
(* long enough for the open breaker's timeout and the closed breaker's     *)
(* counting interval to run out.                                           *)
(***************************************************************************)
NextProbe ==
    \/ Tick(MaxProbeTime)
    \/ Health
    \/ \E c \in Callers :
          \/ SendMessageWithTTL(c, IF c = "c1" THEN MaxProbeCalls ELSE 0,
                                {"text"}, {MessageTTL}, {FALSE})
          \/ Step(c, {"refused"})

SpecProbe == InitBreaker /\ [][NextProbe]_vars

\* a step of Health: neither the clock nor a caller has moved
HealthStep == now' = now /\ pc' = pc /\ call' = call

(***************************************************************************)
(* C36: Health is read-only: in any breaker state, before or after the     *)
(* open period has run out, a call of Health leaves the counters, the last *)
(* success and last error, the connection flag, the breaker's state and    *)
(* counters and the limiter's tokens as they were, and the breaker emits   *)
(* no state-change event.                                                  *)
(***************************************************************************)
C36_HealthReadOnly ==
    [][HealthStep =>
          /\ UNCHANGED <<messagesSent, errorCount, lastSuccess, lastError,
                         isConnected, lim>>
          /\ cb' = cb
      ]_vars

(***************************************************************************)
(* The end of the closure, step by step: pipe.Exec returns, and only then  *)
(* the closure calls setConnectionState with the outcome.  Another         *)
(* goroutine's step may fall between the two.                              *)
(***************************************************************************)
\* pipe.Exec(ctx) returns: the replies were read, or they were lost (as
\* they are once the client is closed)
ExecReturns(c, faults) ==
    /\ pc[c] = "reply"
    /\ \E lost \in IF closed THEN {TRUE} ELSE {FALSE} \cup {"lost" \in faults} :
          call' = [call EXCEPT ![c].failed = call[c].failed \/ lost]
    /\ pc' = [pc EXCEPT ![c] = "flag"]
    /\ UNCHANGED <<now, config, cb, lim, list, expire, messagesSent, errorCount,
                   lastSuccess, lastError, isConnected, nCalls, nextId,
                   streak, tstreak, trial, tally, closed, closeResult,
                   report, passes, built, options, codec, reading>>

\* s.setConnectionState(err == nil), and the closure returns
SetConnectionState(c) ==
    /\ pc[c] = "flag"
    /\ isConnected' = ~call[c].failed
    /\ ExecuteDone(c, call[c], IF call[c].failed THEN "Transport" ELSE "nil")
    /\ UNCHANGED <<now, config, lim, list, expire, lastSuccess, lastError,
                   nCalls, nextId, tally,
                   closed, closeResult, report, passes, built, options, codec, reading>>

(***************************************************************************)
(* SpecShutdown: Close called at any moment while two callers send, and    *)
(* Health called at any moment.  Closing the client does not fail.         *)
(***************************************************************************)
NextShutdown ==
    \/ Tick(MaxShutdownTime)
    \/ Close(MaxShutdownCloses, {})
    \/ Health
    \/ \E c \in Callers :
          \/ SendMessageWithTTL(c, MaxShutdownCalls, {"text"}, {MessageTTL}, {FALSE})
          \/ Execute(c)
          \/ Internal(c, {"refused"})
          \/ PipelineExpire(c, {})
          \/ ExecReturns(c, {"lost"})
          \/ SetConnectionState(c)
          \/ Return(c)

SpecShutdown == InitBreaker /\ [][NextShutdown]_vars

(***************************************************************************)
(* C37: once Close has returned, every later call of Health reports the    *)
(* connection state "disconnected", also when a send that was in flight    *)
(* beside Close completes after it.                                        *)
(***************************************************************************)
C37_DisconnectedAfterClose ==
    [][(closeResult # <<>> /\ closeResult' = closeResult /\ HealthStep
                           /\ report' # report) =>
            report'.ConnectionState = "disconnected"
      ]_vars

(***************************************************************************)
(* SpecAdmit: senders built from Configs that validate accepts, with a     *)
(* rate limit and a burst of 0 or 1.  Two callers send message after       *)
(* message with contexts that are never cancelled; the clock keeps ticking *)
(* and every caller that can take a step takes one.                        *)
(***************************************************************************)
\* a Config that validate accepts, with each limit and burst
AdmitConfigs ==
    LET accepted == CHOOSE c \in Candidates : validate(c) = "nil"
    IN  {accepted @@ GateConfig(burst, r) : burst \in 0..1, r \in 0..1}

InitAdmit == InitWith(AdmitConfigs)

AdmitStep(c) ==
    \/ SendMessageWithTTL(c, MaxAdmitCalls, {"text"}, {MessageTTL}, {FALSE})
    \/ WaitWake(c)
    \/ ReturnEarly(c)
    \/ Execute(c)
    \/ Internal(c, {})
    \/ PipelineExpire(c, {})
    \/ PipelineReply(c, {})
    \/ Return(c)

NextAdmit ==
    \/ Tick(MaxAdmitTime)
    \/ \E c \in Callers : AdmitStep(c)

SpecAdmit ==
    /\ InitAdmit
    /\ [][NextAdmit]_vars
    /\ WF_vars(Tick(MaxAdmitTime))
    /\ \A c \in Callers : WF_vars(AdmitStep(c))

\* c's n-th call is in rateLimiter.Wait or has just left it, its context not
\* cancelled, and the clock can still reach the time its token is due
InWait(c, n) ==
    /\ nCalls[c] = n
    /\ pc[c] \in {"early", "sleep", "before"}
    /\ ~call[c].ctxDone
    /\ call[c].timeToAct <= MaxAdmitTime

\* c's n-th call is past the limiter, at the breaker's Execute
AtBreaker(c, n) == nCalls[c] = n /\ pc[c] = "before"

(***************************************************************************)
(* C38: admission is live for every Config that validate accepts: a send   *)
(* whose context is never cancelled eventually passes the limiter and      *)
(* reaches the breaker.                                                    *)
(***************************************************************************)
C38_AdmissionLive ==
    \A c \in Callers : \A n \in 1..MaxAdmitCalls :
        (validate(config) = "nil" /\ InWait(c, n)) ~> AtBreaker(c, n)

(***************************************************************************)
(* C39: the MessageID of the metadata passed to the success handler is the *)
(* id of the message sent: for a successful SendMessage the id of the      *)
(* envelope the call pushed, for a successful SendBatch the i-th handler   *)
(* call carries the id of the i-th envelope pushed.                        *)
(***************************************************************************)
C39_MetadataNamesEnvelope ==
    [][\A c \in Callers :
          (Returns(c) /\ call[c].err = "nil") =>
              LET calls == SuccessHandlerCalls(call[c])
              IN  \A i \in 1..Len(calls) : calls[i].MessageID = call[c].ids[i]
      ]_vars

(***************************************************************************)
(* SpecCharge: one caller sends message after message through a transport  *)
(* that may refuse them, enough of them to open the breaker, while a       *)
(* second caller sends a batch; the limiter's bucket holds a token for     *)
(* each call of the first caller.                                          *)
(***************************************************************************)
InitCharge == InitWith({GateConfig(MaxChargeCalls, 1)})

NextCharge ==
    \/ Tick(MaxChargeTime)
    \/ \E c \in Callers :
          \/ SendMessageWithTTL(c, IF c = "c1" THEN MaxChargeCalls ELSE 0,
                                {"text"}, {MessageTTL}, {FALSE})
          \/ SendBatch(c, BatchCalls(c), {<<"text">>, <<"text", "text">>}, {FALSE})
          \/ WaitWake(c)
          \/ Step(c, {"refused"})

SpecCharge == InitCharge /\ [][NextCharge]_vars

\* c enters a call and passes the checks before the reservation
Admitted(c) == pc[c] = "idle" /\ pc'[c] \in {"sleep", "before"}

(***************************************************************************)
(* C40: admission is charged per call, not per message: a SendBatch of N   *)
(* messages takes exactly one token from the limiter whatever N is, as a   *)
(* SendMessage does; no later step of a call takes or gives back a token,  *)
(* and a call the breaker rejects has taken its token and keeps it taken.  *)
(***************************************************************************)
C40_ChargedPerCall ==
    [][\A c \in Callers :
          /\ Admitted(c) =>
                /\ lim'.tokens = lim.tokens - 1
                /\ call'[c].tokenTaken
          /\ (pc[c] # "idle" /\ pc'[c] # pc[c]) => lim' = lim
          /\ (pc[c] = "before" /\ pc'[c] = "last") =>
                /\ call'[c].err \in {"ErrOpenState", "ErrTooManyRequests"}
                /\ call'[c].tokenTaken
                /\ lim' = lim
      ]_vars

\* before the clock has moved: the first caller's fifth send is rejected by
\* the open breaker and the second caller's batch of two sleeps until the
\* one token it owes is due; the six calls have taken six tokens
C40_Witness ==
    /\ now = 0
    /\ pc["c1"] = "last"
    /\ nCalls["c1"] = MaxChargeCalls
    /\ call["c1"].err = "ErrOpenState"
    /\ call["c1"].tokenTaken
    /\ pc["c2"] = "sleep"
    /\ Len(call["c2"].msgs) = 2
    /\ call["c2"].tokenTaken
    /\ call["c2"].timeToAct = 1
    /\ lim.tokens = config.RateLimitBurst - (MaxChargeCalls + MaxJoinCalls)

====
